---------------------------- MODULE Spec2Model ----------------------------
(***************************************************************************)
(* A model of the DexArm sketching pipeline: the arm controller            *)
(* (dexarm_controller.py over dexarm_tests/dexarm.py), the drawing session *)
(* of app.py, the path order optimizer and segment joiner of               *)
(* svg_plotter_methods.py and the command generator of svg_parser.py.      *)
(*                                                                         *)
(* Lengths are integers in units of a quarter of a millimetre, so that the *)
(* 0.5 mm threshold of move_to_safe and the distances around it (0.25,     *)
(* 0.5, 0.75) are exact; quarter millimetres are exact in binary floating  *)
(* point as well, so the comparisons agree with the program's.             *)
(***************************************************************************)
EXTENDS Integers, Sequences, FiniteSets, TLC

VARIABLES
    is_connected,   \* DexArmController.is_connected
    dexarm,         \* DexArmController._dexarm: <<>> (None) or <<port>>
    config,         \* DexArmController.config: port, corners, resting_position
    arm,            \* the pose of the physical arm
    wire,           \* the command lines the last operation wrote to the device
    result,         \* what the last operation was and how it ended
    current_z,      \* draw_svg's current_z: <<>> (None) or <<z>>
    drawing,        \* a draw_svg request is between its first and last command
    polylines,      \* _optimize_path_order: the input list
    ordered,        \* _optimize_path_order: ordered
    remaining,      \* _optimize_path_order: remaining
    current_end,    \* _optimize_path_order: current_end, <<>> before the seed
    opt_pc,         \* _optimize_path_order: position in the function
    segments,       \* _join_nearby_segments: segments (after the sort)
    threshold,      \* _join_nearby_segments: threshold
    used,           \* _join_nearby_segments: used
    joined_paths,   \* _join_nearby_segments: joined_paths
    current_path,   \* _join_nearby_segments: current_path
    join_end,       \* _join_nearby_segments: current_end
    join_i,         \* _join_nearby_segments: i of the outer loop, from 1
    join_log,       \* per joined path, the segments it was built from
    join_pc,        \* _join_nearby_segments: position in the function
    document,       \* the polyline elements of the SVG file, in document order
    transform,      \* the transform attribute draw_svg gives the elements, <<>> if none
    paths,          \* SVGPathParser.paths
    svg_size,       \* SVGPathParser.width and SVGPathParser.height
    drawing_area,   \* convert_to_drawing_commands: drawing_area
    max_commands,   \* convert_to_drawing_commands: max_commands
    commands,       \* convert_to_drawing_commands: commands
    path_count,     \* convert_to_drawing_commands: path_count
    owners,         \* per command, the number of the path it was generated for
    skipped,        \* the count of skipped paths the limit message reports
    gen_pc,         \* convert_to_drawing_commands: position in the function
    fit_args,       \* the source size and drawing area of a scale computation
    fit,            \* where it maps the source's corners, <<>> before
    drawing_progress,   \* app.py: drawing_progress
    progress_lock,      \* app.py: progress_lock, <<>> when free, else its holder
    requests,       \* per request thread, where its draw_svg is and its locals
    observed,       \* what drawing_progress_stream last sent, <<>> before
    device_log,     \* the running sessions' device calls, as the threads in order
    serial_log,     \* Dexarm: the lines written to the serial port, each with
                    \* whether `ok` was read before send_gcode returned
    link_status     \* Dexarm: how the last send_gcode ended

ctlVars == <<is_connected, dexarm, config, arm, wire, result, current_z, drawing>>
optVars == <<polylines, ordered, remaining, current_end, opt_pc>>
joinVars == <<segments, threshold, used, joined_paths, current_path, join_end,
              join_i, join_log, join_pc>>
genVars == <<document, transform, paths, svg_size, drawing_area, max_commands, commands, path_count,
             owners, skipped, gen_pc>>
fitVars == <<fit_args, fit>>
sesVars == <<drawing_progress, progress_lock, requests, observed, device_log>>
linkVars == <<serial_log, link_status>>
vars == <<ctlVars, optVars, joinVars, genVars, fitVars, sesVars, linkVars>>

-----------------------------------------------------------------------------
(* Bounds of the model *)

MaxXY == 1
MaxZ == 3
MaxStrokes == 3
MaxSegments == 3
MaxPaths == 2
MaxLines == 3

MaxCommands == 4

-----------------------------------------------------------------------------
(* Values *)

None == <<>>
Some(v) == <<v>>
Val(o) == o[1]

Abs(n) == IF n < 0 THEN -n ELSE n
Max(a, b) == IF a >= b THEN a ELSE b
Min(a, b) == IF a <= b THEN a ELSE b

Pose(x, y, z) == [x |-> x, y |-> y, z |-> z]

\* 0.5 mm, the threshold of move_to_safe
HalfMm == 2
\* the feedrate move_to_safe uses for its pen-up moves
FastFeedrate == 10000
\* the default feedrate of Dexarm.fast_move_to
DefaultFastFeedrate == 3000
\* the feedrate test_draw_frame draws with
FrameFeedrate == 2000

\* resting_pos = {'x': 200, 'y': 0, 'z': 50}
DefaultResting == Pose(800, 0, 200)

\* z_up = z_draw + 20 in test_draw_frame
FrameLift == 80

NoCorners == [corner1 |-> None, corner2 |-> None]
EmptyConfig == [port |-> None, corners |-> NoCorners, resting_position |-> None]

Ports == {"COM3", "COM4"}

-----------------------------------------------------------------------------
(* The device link: dexarm_tests/dexarm.py *)

Line(c, x, y, z, f) == [cmd |-> c, x |-> x, y |-> y, z |-> z, f |-> f]
G0(x, y, z, f) == Line("G0", x, y, z, f)
G1(x, y, z, f) == Line("G1", x, y, z, f)
Plain(c) == Line(c, 0, 0, 0, 0)

IsMove(l) == l.cmd \in {"G0", "G1"}

\* The pose the arm has once it has carried out line l; a homing cycle ends
\* at the pose `home` of the firmware.
PoseAfter(l, pose, home) ==
    IF IsMove(l) THEN Pose(l.x, l.y, l.z)
    ELSE IF l.cmd = "G28" THEN home
    ELSE pose

RECURSIVE Emit(_, _, _)
\* The lines as they reach the device, each with the pose the arm had before.
Emit(lines, pose, home) ==
    IF lines = <<>> THEN <<>>
    ELSE LET l == Head(lines) IN
         <<[cmd |-> l.cmd, x |-> l.x, y |-> l.y, z |-> l.z, f |-> l.f, from |-> pose]>>
         \o Emit(Tail(lines), PoseAfter(l, pose, home), home)

RECURSIVE FinalPose(_, _, _)
FinalPose(lines, pose, home) ==
    IF lines = <<>> THEN pose
    ELSE FinalPose(Tail(lines), PoseAfter(Head(lines), pose, home), home)

Moves(w) == SelectSeq(w, IsMove)

-----------------------------------------------------------------------------
(* DexArmController: dexarm_controller.py *)

ConnectedLinkOnly == dexarm # None

\* `if not self.is_connected or not self._dexarm: raise RuntimeError(...)`
Connected == is_connected /\ dexarm # None

is_calibrated == config.corners.corner1 # None /\ config.corners.corner2 # None

get_resting_position == config.resting_position

RestingTargetDefaultOnly == DefaultResting

RestingTarget ==
    IF get_resting_position # None THEN Val(get_resting_position) ELSE DefaultResting

GoToRestingLines ==
    <<G0(RestingTarget.x, RestingTarget.y, RestingTarget.z, DefaultFastFeedrate)>>

\* arg: what the call was given, where a claim needs it; ack: whether the
\* device answered the awaited command with `ok`; rest: how many lines the
\* move to rest of an error handler wrote, None when no handler tried one
Outcome(op, status) ==
    [op |-> op, status |-> status, ret |-> None, target |-> None, cz |-> None,
     arg |-> None, ack |-> None, rest |-> None]

\* The operation op wrote the first n of `lines`; it failed iff a line is left.
Transmit(lines, n, home) ==
    /\ wire' = Emit(SubSeq(lines, 1, n), arm, home)
    /\ arm' = FinalPose(SubSeq(lines, 1, n), arm, home)

NotConnected(op) ==
    /\ ~Connected
    /\ result' = Outcome(op, "NotConnected")
    /\ wire' = <<>>
    /\ UNCHANGED <<is_connected, dexarm, config, arm>>

StatusOf(lines, n) == IF n = Len(lines) THEN "ok" ELSE "error"

\* --- move_to_safe ---------------------------------------------------------

NegligibleLiftLoose(z_diff) == Abs(z_diff) <= HalfMm

\* `abs(z_diff) < 0.5`
NegligibleLift(z_diff) == Abs(z_diff) < HalfMm

\* Moving UP: the two moves of the `elif z_diff > 0` branch
LiftMoves(x, y, z, cz) ==
    <<G0(cz, cz, z, FastFeedrate), G0(x, y, z, FastFeedrate)>>

LowerMovesZFirst(x, y, z, feedrate, cz) ==
    <<G0(x, y, z, feedrate), G0(x, y, cz, FastFeedrate)>>

\* Moving DOWN: the two moves of the `else` branch
LowerMoves(x, y, z, feedrate, cz) ==
    <<G0(x, y, cz, FastFeedrate), G0(x, y, z, feedrate)>>

SafeMoves(x, y, z, feedrate, cz) ==
    IF NegligibleLift(z - cz) THEN <<G0(x, y, z, feedrate)>>
    ELSE IF z - cz > 0 THEN LiftMoves(x, y, z, cz)
    ELSE LowerMoves(x, y, z, feedrate, cz)

\* The Z move_to_safe plans with: the caller's, or the one it reads
EffectiveZ(cz, pos) ==
    IF cz # None THEN cz ELSE IF pos # None THEN Some(Val(pos).z) ELSE None

\* All lines of one call: the position read when current_z is None, then the
\* planned moves, or the single direct move when the read gave nothing.
SafeLines(x, y, z, feedrate, cz, pos) ==
    (IF cz = None THEN <<Plain("M114")>> ELSE <<>>)
    \o (IF EffectiveZ(cz, pos) = None THEN <<G0(x, y, z, feedrate)>>
        ELSE SafeMoves(x, y, z, feedrate, Val(EffectiveZ(cz, pos))))

ReturnedPlannedZ(z, cz) == IF cz = None THEN Some(z) ELSE cz

\* `return z`, of the fallback and of the end of move_to_safe
ReturnedZ(z, cz) == Some(z)

SafeOutcome(x, y, z, feedrate, cz, pos, n) ==
    [op |-> "move_to_safe",
     status |-> StatusOf(SafeLines(x, y, z, feedrate, cz, pos), n),
     ret |-> IF n = Len(SafeLines(x, y, z, feedrate, cz, pos))
             THEN ReturnedZ(z, EffectiveZ(cz, pos)) ELSE None,
     target |-> Some([x |-> x, y |-> y, z |-> z, f |-> feedrate]),
     cz |-> EffectiveZ(cz, pos)]

\* The reply of M114: the arm's pose, or nothing parsable
Reads == {None, Some(arm)}

\* A call that is given current_z reads no position.
ReadsFor(cz) == IF cz = None THEN Reads ELSE {None}

\* How many lines of `lines` can be written before a write fails: a position
\* read swallows its own failure, so the read of a move_to_safe is always counted.
FailPoints(lines, first) == first..Len(lines)

move_to_safe(x, y, z, feedrate, cz, pos, n) ==
    \/ NotConnected("move_to_safe")
    \/ /\ Connected
       /\ n \in FailPoints(SafeLines(x, y, z, feedrate, cz, pos),
                           IF cz = None THEN 1 ELSE 0)
       /\ Transmit(SafeLines(x, y, z, feedrate, cz, pos), n, arm)
       /\ result' = SafeOutcome(x, y, z, feedrate, cz, pos, n)
       /\ UNCHANGED <<is_connected, dexarm, config>>

\* --- move_to --------------------------------------------------------------

move_to(x, y, z, feedrate, n) ==
    \/ NotConnected("move_to")
    \/ /\ Connected
       /\ n \in FailPoints(<<G0(x, y, z, feedrate)>>, 0)
       /\ Transmit(<<G0(x, y, z, feedrate)>>, n, arm)
       /\ result' = Outcome("move_to", StatusOf(<<G0(x, y, z, feedrate)>>, n))
       /\ UNCHANGED <<is_connected, dexarm, config>>

\* --- get_position, lock_motors, unlock_motors, home -------------------------

get_position_drops_link(pos) ==
    \/ NotConnected("get_position")
    \/ /\ Connected
       /\ Transmit(<<Plain("M114")>>, 1, arm)
       /\ result' = [Outcome("get_position", "ok") EXCEPT !.ret = pos]
       /\ is_connected' = (pos # None)
       /\ dexarm' = IF pos # None THEN dexarm ELSE None
       /\ UNCHANGED config

get_position(pos) ==
    \/ NotConnected("get_position")
    \/ /\ Connected
       /\ Transmit(<<Plain("M114")>>, 1, arm)
       /\ result' = [Outcome("get_position", "ok") EXCEPT !.ret = pos]
       /\ UNCHANGED <<is_connected, dexarm, config>>

lock_motors(n) ==
    \/ NotConnected("lock_motors")
    \/ /\ Connected
       /\ n \in FailPoints(<<Plain("M17")>>, 0)
       /\ Transmit(<<Plain("M17")>>, n, arm)
       /\ result' = Outcome("lock_motors", StatusOf(<<Plain("M17")>>, n))
       /\ UNCHANGED <<is_connected, dexarm, config>>

unlock_motors(n) ==
    \/ NotConnected("unlock_motors")
    \/ /\ Connected
       /\ n \in FailPoints(<<Plain("M84")>>, 0)
       /\ Transmit(<<Plain("M84")>>, n, arm)
       /\ result' = Outcome("unlock_motors", StatusOf(<<Plain("M84")>>, n))
       /\ UNCHANGED <<is_connected, dexarm, config>>

\* go_home: G28, then a position read that only prints. A write that times out
\* raises TimeoutError, any other failure of the write RuntimeError.
HomeLines == <<Plain("G28"), Plain("M114")>>

\* send_gcode after a write that went through: the loop that waits for `ok`
\* ends with a return, whether `ok` came (ack) or the timeout elapsed
AfterWait(ack) == "ok"

\* out: how the write of G28 ends; ack: `ok` comes before the timeout
home(out, ack, hp) ==
    \/ NotConnected("home")
    \/ /\ Connected
       /\ out \in {"ok", "error", "HomingTimeout"}
       /\ Transmit(HomeLines, IF out = "ok" THEN Len(HomeLines) ELSE 0, hp)
       /\ result' = IF out = "ok"
                    THEN [Outcome("home", AfterWait(ack)) EXCEPT !.ack = Some(ack)]
                    ELSE Outcome("home", out)
       /\ UNCHANGED <<is_connected, dexarm, config>>

\* --- calibration ------------------------------------------------------------

save_corner_alone(corner_name, pos) ==
    \/ NotConnected("save_corner")
    \/ /\ Connected
       /\ Transmit(<<Plain("M114")>>, 1, arm)
       /\ IF pos = None
          THEN /\ result' = [Outcome("save_corner", "error") EXCEPT !.arg = Some(corner_name)]
               /\ UNCHANGED config
          ELSE /\ result' = [Outcome("save_corner", "ok") EXCEPT
                                !.ret = pos, !.arg = Some(corner_name)]
               /\ config' = [config EXCEPT !.corners = [NoCorners EXCEPT ![corner_name] = pos]]
       /\ UNCHANGED <<is_connected, dexarm>>

save_corner(corner_name, pos) ==
    \/ NotConnected("save_corner")
    \/ /\ Connected
       /\ Transmit(<<Plain("M114")>>, 1, arm)
       /\ IF pos = None
          THEN /\ result' = [Outcome("save_corner", "error") EXCEPT !.arg = Some(corner_name)]
               /\ UNCHANGED config
          ELSE /\ result' = [Outcome("save_corner", "ok") EXCEPT
                                !.ret = pos, !.arg = Some(corner_name)]
               /\ config' = [config EXCEPT !.corners[corner_name] = pos]
       /\ UNCHANGED <<is_connected, dexarm>>

save_resting_position_unchecked(pos) ==
    \/ NotConnected("save_resting_position")
    \/ /\ Connected
       /\ Transmit(<<Plain("M114")>>, 1, arm)
       /\ result' = IF pos = None THEN Outcome("save_resting_position", "error")
                    ELSE [Outcome("save_resting_position", "ok") EXCEPT !.ret = pos]
       /\ config' = [config EXCEPT !.resting_position = pos]
       /\ UNCHANGED <<is_connected, dexarm>>

save_resting_position(pos) ==
    \/ NotConnected("save_resting_position")
    \/ /\ Connected
       /\ Transmit(<<Plain("M114")>>, 1, arm)
       /\ IF pos = None
          THEN /\ result' = Outcome("save_resting_position", "error")
               /\ UNCHANGED config
          ELSE /\ result' = [Outcome("save_resting_position", "ok") EXCEPT !.ret = pos]
               /\ config' = [config EXCEPT !.resting_position = pos]
       /\ UNCHANGED <<is_connected, dexarm>>

reset_all ==
    /\ config' = [config EXCEPT !.corners = NoCorners, !.resting_position = None]
    /\ result' = Outcome("reset_calibration", "ok")
    /\ wire' = <<>>
    /\ UNCHANGED <<is_connected, dexarm, arm>>

reset_calibration ==
    /\ config' = [config EXCEPT !.corners = NoCorners]
    /\ result' = Outcome("reset_calibration", "ok")
    /\ wire' = <<>>
    /\ UNCHANGED <<is_connected, dexarm, arm>>

go_to_resting_position(n) ==
    \/ NotConnected("go_to_resting_position")
    \/ /\ Connected
       /\ n \in FailPoints(GoToRestingLines, 0)
       /\ Transmit(GoToRestingLines, n, arm)
       /\ result' = Outcome("go_to_resting_position", StatusOf(GoToRestingLines, n))
       /\ UNCHANGED <<is_connected, dexarm, config>>

\* --- get_drawing_area ---------------------------------------------------------

\* None when not calibrated; else the rectangle spanned by the two corners
get_drawing_area ==
    IF ~is_calibrated THEN None
    ELSE LET c1 == Val(config.corners.corner1)
             c2 == Val(config.corners.corner2)
             x_min == Min(c1.x, c2.x)
             x_max == Max(c1.x, c2.x)
             y_min == Min(c1.y, c2.y)
             y_max == Max(c1.y, c2.y)
         IN  Some([width |-> x_max - x_min, height |-> y_max - y_min,
                   x_min |-> x_min, y_min |-> y_min,
                   x_max |-> x_max, y_max |-> y_max,
                   z_draw |-> c1.z])

\* --- test_draw_frame --------------------------------------------------------

\* The lines of the frame and the X, for corners c1 and c2
FrameLines(c1, c2) ==
    LET z_draw == c1.z
        z_up == z_draw + FrameLift
        F == FrameFeedrate
    IN  GoToRestingLines
        \o <<G0(c1.x, c1.y, z_up, DefaultFastFeedrate),
             G1(c1.x, c1.y, z_draw, F),
             G1(c2.x, c1.y, z_draw, F),
             G1(c2.x, c2.y, z_draw, F),
             G1(c1.x, c2.y, z_draw, F),
             G1(c1.x, c1.y, z_draw, F),
             G1(c2.x, c2.y, z_draw, F),
             G1(c2.x, c2.y, z_up, F),
             G0(c2.x, c1.y, z_up, DefaultFastFeedrate),
             G1(c2.x, c1.y, z_draw, F),
             G1(c1.x, c2.y, z_draw, F),
             G1(c1.x, c2.y, z_up, F)>>
        \o GoToRestingLines

\* The generator is run to its end, as dexarm_test_draw does.
test_draw_frame(n) ==
    \/ NotConnected("test_draw_frame")
    \/ /\ Connected
       /\ ~is_calibrated
       /\ result' = Outcome("test_draw_frame", "NotCalibrated")
       /\ wire' = <<>>
       /\ UNCHANGED <<is_connected, dexarm, config, arm>>
    \/ /\ Connected
       /\ is_calibrated
       /\ LET lines == FrameLines(Val(config.corners.corner1), Val(config.corners.corner2))
          IN  /\ n \in FailPoints(lines, 0)
              /\ Transmit(lines, n, arm)
              /\ result' = Outcome("test_draw_frame", StatusOf(lines, n))
       /\ UNCHANGED <<is_connected, dexarm, config>>

\* --- connect, disconnect ----------------------------------------------------

\* lock_motors and go_to_resting_position after a connect with move_to_rest;
\* a failure of either is caught and printed.
RestAfterConnect(move_to_rest) ==
    IF move_to_rest /\ get_resting_position # None
    THEN <<Plain("M17")>> \o GoToRestingLines
    ELSE <<>>

\* `port = self.config.get('port') or find_dexarm_port()` when port is None
ResolvePort(port, found) ==
    IF port # None THEN port
    ELSE IF config.port # None THEN config.port
    ELSE found

AlreadyConnectedNever(port) == FALSE

\* `if self.is_connected and self._dexarm and port == self.config.get('port')`
AlreadyConnected(port) == is_connected /\ dexarm # None /\ port = config.port

ConnectLinesRestFirst(move_to_rest) == RestAfterConnect(move_to_rest) \o <<Plain("G90")>>

\* set_absolute_positioning, then the move to rest if asked for
ConnectLines(move_to_rest) == <<Plain("G90")>> \o RestAfterConnect(move_to_rest)

PersistPortOnly(p) == [EmptyConfig EXCEPT !.port = p]

\* `self.config['port'] = port; self.save_config()`
PersistPort(p) == [config EXCEPT !.port = p]

ConnectOutcome(status, port, move_to_rest) ==
    [Outcome("connect", status) EXCEPT
        !.arg = Some([port |-> port, move_to_rest |-> move_to_rest])]

\* port: the argument; found: what find_dexarm_port would return; linkOk: the
\* serial port opens; n: the lines written before a write fails.
connect(port, found, linkOk, move_to_rest, n) ==
    IF AlreadyConnected(port)
    THEN \* already connected to the same port
         /\ n \in FailPoints(RestAfterConnect(move_to_rest), 0)
         /\ Transmit(RestAfterConnect(move_to_rest), n, arm)
         /\ result' = ConnectOutcome("ok", port, move_to_rest)
         /\ UNCHANGED <<is_connected, dexarm, config>>
    ELSE LET held == IF is_connected THEN None ELSE dexarm
             p == ResolvePort(port, found)
             lines == ConnectLines(move_to_rest)
         IN  IF p = None
             THEN /\ n = 0
                  /\ is_connected' = FALSE
                  /\ dexarm' = held
                  /\ result' = ConnectOutcome("NoPortFound", port, move_to_rest)
                  /\ wire' = <<>>
                  /\ UNCHANGED <<config, arm>>
             ELSE IF ~linkOk
             THEN /\ n = 0
                  /\ is_connected' = FALSE
                  /\ dexarm' = held
                  /\ result' = ConnectOutcome("ConnectFailed", port, move_to_rest)
                  /\ wire' = <<>>
                  /\ UNCHANGED <<config, arm>>
             ELSE /\ n \in FailPoints(lines, 0)
                  /\ dexarm' = p
                  /\ is_connected' = (n >= 1)
                  /\ config' = IF n >= 1 THEN PersistPort(p) ELSE config
                  /\ result' = ConnectOutcome(IF n >= 1 THEN "ok" ELSE "ConnectFailed",
                                              port, move_to_rest)
                  /\ Transmit(lines, n, arm)

disconnect_keeps_link ==
    /\ is_connected' = FALSE
    /\ result' = Outcome("disconnect", "ok")
    /\ wire' = <<>>
    /\ UNCHANGED <<dexarm, config, arm>>

disconnect ==
    /\ dexarm' = None
    /\ is_connected' = FALSE
    /\ result' = Outcome("disconnect", "ok")
    /\ wire' = <<>>
    /\ UNCHANGED <<config, arm>>

\* With the motors unlocked the arm is positioned by hand.
HandMove(p) ==
    /\ arm' = p
    /\ wire' = <<>>
    /\ result' = Outcome("hand_move", "ok")
    /\ UNCHANGED <<is_connected, dexarm, config>>

-----------------------------------------------------------------------------
(* The drawing session of draw_svg: app.py *)

\* `current_z = None; pos = get_position(); if pos: current_z = pos['z']`,
\* reached once the request has passed the connection and calibration checks
DrawBegin(pos) ==
    /\ ~drawing
    /\ Connected
    /\ is_calibrated
    /\ drawing' = TRUE
    /\ current_z' = IF pos # None THEN Some(Val(pos).z) ELSE None
    /\ Transmit(<<Plain("M114")>>, 1, arm)
    /\ result' = [Outcome("draw_begin", "ok") EXCEPT !.ret = pos]
    /\ UNCHANGED <<is_connected, dexarm, config>>

\* The handler of `except Exception`: go_to_resting_position if is_connected,
\* its own failure swallowed; r is the number of its lines that are written.
RestOnError(r) ==
    IF Connected THEN SubSeq(GoToRestingLines, 1, r) ELSE <<>>

\* One turn of `for i, cmd in enumerate(commands)`: move_to_safe with the
\* threaded current_z; a failure ends the session through the handler.
DrawCommand(x, y, z, feedrate, pos, n, r) ==
    /\ drawing
    /\ r \in 0..Len(GoToRestingLines)
    /\ LET lines == SafeLines(x, y, z, feedrate, current_z, pos) IN
       IF ~Connected
       THEN /\ n = 0
            /\ result' = Outcome("move_to_safe", "NotConnected")
            /\ wire' = <<>>
            /\ UNCHANGED arm
            /\ drawing' = FALSE
            /\ current_z' = None
       ELSE /\ n \in FailPoints(lines, IF current_z = None THEN 1 ELSE 0)
            /\ result' = SafeOutcome(x, y, z, feedrate, current_z, pos, n)
            /\ IF n = Len(lines)
               THEN /\ r = 0
                    /\ Transmit(lines, n, arm)
                    /\ current_z' = ReturnedZ(z, EffectiveZ(current_z, pos))
                    /\ UNCHANGED drawing
               ELSE /\ Transmit(SubSeq(lines, 1, n) \o RestOnError(r),
                                n + Len(RestOnError(r)), arm)
                    /\ current_z' = None
                    /\ drawing' = FALSE
    /\ UNCHANGED <<is_connected, dexarm, config>>

\* After the last command: go_to_resting_position, then the response
DrawEnd(n, r) ==
    /\ drawing
    /\ n \in FailPoints(GoToRestingLines, 0)
    /\ r \in 0..Len(GoToRestingLines)
    /\ IF ~Connected
       THEN /\ n = 0 /\ r = 0
            /\ result' = Outcome("draw_svg", "NotConnected")
            /\ wire' = <<>>
            /\ UNCHANGED arm
       ELSE IF n = Len(GoToRestingLines)
       THEN /\ r = 0
            /\ result' = Outcome("draw_svg", "ok")
            /\ Transmit(GoToRestingLines, n, arm)
       ELSE /\ result' = Outcome("draw_svg", "error")
            /\ Transmit(RestOnError(r), Len(RestOnError(r)), arm)
    /\ drawing' = FALSE
    /\ current_z' = None
    /\ UNCHANGED <<is_connected, dexarm, config>>

-----------------------------------------------------------------------------
(* Concurrent requests of draw_svg and the progress stream: app.py. The web  *)
(* server runs every request in a thread of its own. A `with progress_lock`  *)
(* block of draw_svg is one step together with the device call before it;    *)
(* the stream holds the lock across its `yield`.                             *)

Threads == {1, 2}

\* A drawing command as convert_to_drawing_commands returns it
Cmd(type, x, y, z, feedrate) ==
    [type |-> type, x |-> x, y |-> y, z |-> z, feedrate |-> feedrate]

\* `drawing_progress = {'current': 0, 'total': 0, 'active': False, 'message': ''}`
NoProgress == [current |-> 0, total |-> 0, active |-> FALSE, message |-> ""]

Ready == "Your drawing is ready!"

\* A request thread that is not in draw_svg
IdleRequest == [pc |-> "idle", commands |-> <<>>, i |-> 0, current_z |-> None]

RECURSIVE Runs(_)
\* l with every run of equal entries shortened to one
Runs(l) ==
    IF Len(l) <= 1 THEN l
    ELSE IF l[1] = l[2] THEN Runs(Tail(l))
    ELSE <<l[1]>> \o Runs(Tail(l))

\* The log once thread t has moved the arm, and once its session is over
Logged(log, t) == Runs(Append(log, t))
Purged(log, t) == Runs(SelectSeq(log, LAMBDA u : u # t))

DrawRejectionConnectionOnly(cmds) ==
    IF ~is_connected THEN "NotConnected"
    ELSE IF cmds = <<>> THEN "NoCommands"
    ELSE "none"

\* The early returns of draw_svg once the file is found: not connected, not
\* calibrated, `if not commands`
DrawRejection(cmds) ==
    IF ~is_connected THEN "NotConnected"
    ELSE IF ~is_calibrated THEN "NotCalibrated"
    ELSE IF cmds = <<>> THEN "NoCommands"
    ELSE "none"

DrawOutcome(t, status) == [Outcome("draw_svg", status) EXCEPT !.arg = Some(t)]

\* `except Exception`: the progress is reset under the lock, then
\* go_to_resting_position if is_connected, its failure swallowed, and the
\* error of the failed call is returned. sent: what the failed call wrote;
\* r: the lines the move to rest writes; msg: the message of the progress.
draw_svg_failed(t, status, sent, r, msg) ==
    /\ progress_lock = None
    /\ drawing_progress' = [NoProgress EXCEPT !.message = msg]
    /\ requests' = [requests EXCEPT ![t] = IdleRequest]
    /\ device_log' = Purged(device_log, t)
    /\ result' = [DrawOutcome(t, status) EXCEPT
                     !.rest = IF is_connected THEN Some(Len(RestOnError(r))) ELSE None]
    /\ Transmit(sent \o RestOnError(r), Len(sent) + Len(RestOnError(r)), arm)

\* draw_svg up to `drawing_progress['active'] = True`; cmds is what
\* convert_to_drawing_commands returns for the file and the drawing area
draw_svg_begin(t, cmds) ==
    /\ requests[t].pc = "idle"
    /\ wire' = <<>>
    /\ UNCHANGED <<is_connected, dexarm, config, arm, progress_lock, observed, device_log>>
    /\ IF DrawRejection(cmds) # "none"
       THEN /\ result' = [DrawOutcome(t, DrawRejection(cmds)) EXCEPT
                            !.ret = IF DrawRejection(cmds) = "NoCommands"
                                    THEN Some(cmds) ELSE None]
            /\ UNCHANGED <<drawing_progress, requests>>
       ELSE /\ progress_lock = None
            /\ drawing_progress' = [drawing_progress EXCEPT
                                      !.current = 0, !.total = Len(cmds), !.active = TRUE]
            /\ requests' = [requests EXCEPT ![t] =
                              [pc |-> "read", commands |-> cmds, i |-> 0, current_z |-> None]]
            /\ result' = [DrawOutcome(t, "running") EXCEPT !.ret = Some(cmds)]

\* `current_z = None; pos = get_position(); if pos: current_z = pos['z']`
draw_svg_read(t, pos) ==
    /\ requests[t].pc = "read"
    /\ UNCHANGED <<is_connected, dexarm, config, progress_lock, observed>>
    /\ IF ~Connected
       THEN draw_svg_failed(t, "NotConnected", <<>>, 0, drawing_progress.message)
       ELSE /\ Transmit(<<Plain("M114")>>, 1, arm)
            /\ requests' = [requests EXCEPT
                              ![t].pc = "loop",
                              ![t].current_z = IF pos # None THEN Some(Val(pos).z) ELSE None]
            /\ result' = DrawOutcome(t, "running")
            /\ UNCHANGED <<drawing_progress, device_log>>

\* One turn of `for i, cmd in enumerate(commands)`: move_to_safe, then
\* `drawing_progress['current'] = i + 1` under the lock
draw_svg_command(t, pos, n, r) ==
    /\ requests[t].pc = "loop"
    /\ requests[t].i < Len(requests[t].commands)
    /\ progress_lock = None
    /\ UNCHANGED <<is_connected, dexarm, config, progress_lock, observed>>
    /\ LET cmd == requests[t].commands[requests[t].i + 1]
           cz == requests[t].current_z
           lines == SafeLines(cmd.x, cmd.y, cmd.z, cmd.feedrate, cz, pos)
       IN  IF ~Connected
           THEN /\ n = 0 /\ r = 0
                /\ draw_svg_failed(t, "NotConnected", <<>>, 0, drawing_progress.message)
           ELSE /\ n \in FailPoints(lines, IF cz = None THEN 1 ELSE 0)
                /\ IF n = Len(lines)
                   THEN /\ r = 0
                        /\ Transmit(lines, n, arm)
                        /\ requests' = [requests EXCEPT
                                          ![t].i = requests[t].i + 1,
                                          ![t].current_z = Some(cmd.z)]
                        /\ drawing_progress' = [drawing_progress EXCEPT
                                                  !.current = requests[t].i + 1]
                        /\ device_log' = Logged(device_log, t)
                        /\ result' = DrawOutcome(t, "running")
                   ELSE draw_svg_failed(t, "error", SubSeq(lines, 1, n), r,
                                        drawing_progress.message)

\* After the last command: the progress is set to the end with its message,
\* then go_to_resting_position
draw_svg_rest(t, n, r) ==
    /\ requests[t].pc = "loop"
    /\ requests[t].i = Len(requests[t].commands)
    /\ progress_lock = None
    /\ UNCHANGED <<is_connected, dexarm, config, progress_lock, observed>>
    /\ IF ~Connected
       THEN /\ n = 0 /\ r = 0
            /\ draw_svg_failed(t, "NotConnected", <<>>, 0, Ready)
       ELSE /\ n \in FailPoints(GoToRestingLines, 0)
            /\ IF n = Len(GoToRestingLines)
               THEN /\ r = 0
                    /\ Transmit(GoToRestingLines, n, arm)
                    /\ requests' = [requests EXCEPT ![t].pc = "hold"]
                    /\ drawing_progress' = [drawing_progress EXCEPT
                                              !.current = Len(requests[t].commands),
                                              !.message = Ready]
                    /\ device_log' = Logged(device_log, t)
                    /\ result' = DrawOutcome(t, "running")
               ELSE draw_svg_failed(t, "error", <<>>, r, Ready)

\* After the five seconds at 100%: the progress is cleared and the request
\* answered
draw_svg_return(t) ==
    /\ requests[t].pc = "hold"
    /\ progress_lock = None
    /\ drawing_progress' = NoProgress
    /\ requests' = [requests EXCEPT ![t] = IdleRequest]
    /\ device_log' = Purged(device_log, t)
    /\ result' = DrawOutcome(t, "ok")
    /\ wire' = <<>>
    /\ UNCHANGED <<is_connected, dexarm, config, arm, progress_lock, observed>>

\* generate() of drawing_progress_stream: takes the lock, reads the progress
\* and yields its message with the lock held
drawing_progress_stream ==
    /\ progress_lock = None
    /\ progress_lock' = Some("stream")
    /\ observed' = Some(IF drawing_progress.active THEN drawing_progress ELSE NoProgress)
    /\ UNCHANGED <<is_connected, dexarm, config, arm, wire, result,
                   drawing_progress, requests, device_log>>

\* The server asks generate() for its next message: the `with` block is left
stream_resume ==
    /\ progress_lock = Some("stream")
    /\ progress_lock' = None
    /\ UNCHANGED <<is_connected, dexarm, config, arm, wire, result,
                   drawing_progress, requests, observed, device_log>>

-----------------------------------------------------------------------------

(* The path order optimizer: PlotterSVGGenerator._optimize_path_order, which  *)
(* CleanCenterlineGenerator and ThickJoiningVariations repeat line for line   *)

\* Points are the corners of a 3 by 4 rectangle: every distance between two
\* of them is an integer (0, 3, 4 or 5), so that np.sqrt is exact.
PointSet == {<<0, 0>>, <<3, 0>>, <<0, 4>>, <<3, 4>>}

\* The square root of a perfect square
ISqrt(n) == CHOOSE r \in 0..n : r * r = n

\* np.sqrt((p1[0] - p2[0])**2 + (p1[1] - p2[1])**2)
point_distance(p1, p2) ==
    ISqrt((p1[1] - p2[1]) * (p1[1] - p2[1]) + (p1[2] - p2[2]) * (p1[2] - p2[2]))

\* list(reversed(l))
Reversed(l) == [i \in 1..Len(l) |-> l[Len(l) + 1 - i]]

PopFirst(l, idx) == Tail(l)

\* l after l.pop(idx), idx counted from 0
Pop(l, idx) == SubSeq(l, 1, idx) \o SubSeq(l, idx + 2, Len(l))

CloserOrEqual(dist, min_dist) == min_dist = None \/ dist <= Val(min_dist)

\* `dist < min_dist`, min_dist starting at float('inf')
Closer(dist, min_dist) == min_dist = None \/ dist < Val(min_dist)

ScanPolyForwardOnly(best, idx, poly, cur) ==
    LET dist_start == point_distance(cur, poly[1])
        b1 == IF Closer(dist_start, best.min_dist)
              THEN [min_dist |-> Some(dist_start), best_idx |-> idx, best_reverse |-> FALSE]
              ELSE best
        dist_end == point_distance(cur, poly[Len(poly)])
    IN  IF Closer(dist_end, b1.min_dist)
        THEN [min_dist |-> Some(dist_end), best_idx |-> idx, best_reverse |-> FALSE]
        ELSE b1

\* One turn of `for idx, poly in enumerate(remaining)`
ScanPoly(best, idx, poly, cur) ==
    LET dist_start == point_distance(cur, poly[1])
        b1 == IF Closer(dist_start, best.min_dist)
              THEN [min_dist |-> Some(dist_start), best_idx |-> idx, best_reverse |-> FALSE]
              ELSE best
        dist_end == point_distance(cur, poly[Len(poly)])
    IN  IF Closer(dist_end, b1.min_dist)
        THEN [min_dist |-> Some(dist_end), best_idx |-> idx, best_reverse |-> TRUE]
        ELSE b1

RECURSIVE Scan(_, _, _, _)
\* The whole `for` loop from index idx on
Scan(best, idx, rem, cur) ==
    IF idx >= Len(rem) THEN best
    ELSE Scan(ScanPoly(best, idx, rem[idx + 1], cur), idx + 1, rem, cur)

\* min_dist = float('inf'); best_idx = 0; best_reverse = False
NoBest == [min_dist |-> None, best_idx |-> 0, best_reverse |-> FALSE]

\* `if not polylines: return []`
OptEmpty ==
    /\ opt_pc = "start"
    /\ polylines = <<>>
    /\ opt_pc' = "done"
    /\ UNCHANGED <<polylines, ordered, remaining, current_end>>

\* remaining = polylines.copy(); current = remaining.pop(0); ...
OptSeed ==
    /\ opt_pc = "start"
    /\ polylines # <<>>
    /\ remaining' = Pop(polylines, 0)
    /\ ordered' = <<polylines[1]>>
    /\ current_end' = Some(polylines[1][Len(polylines[1])])
    /\ opt_pc' = "loop"
    /\ UNCHANGED polylines

\* One turn of `while remaining`
OptStep ==
    /\ opt_pc = "loop"
    /\ remaining # <<>>
    /\ LET best == Scan(NoBest, 0, remaining, Val(current_end))
           popped == remaining[best.best_idx + 1]
           next_poly == IF best.best_reverse THEN Reversed(popped) ELSE popped
       IN  /\ remaining' = Pop(remaining, best.best_idx)
           /\ ordered' = Append(ordered, next_poly)
           /\ current_end' = Some(next_poly[Len(next_poly)])
    /\ UNCHANGED <<polylines, opt_pc>>

\* `return ordered`
OptReturn ==
    /\ opt_pc = "loop"
    /\ remaining = <<>>
    /\ opt_pc' = "done"
    /\ UNCHANGED <<polylines, ordered, remaining, current_end>>

-----------------------------------------------------------------------------
(* The segment joiner: PlotterSVGGenerator._join_nearby_segments, which       *)
(* ThickJoiningVariations repeats line for line. Indices count from 1.        *)

RECURSIVE polyline_length(_)
\* _polyline_length
polyline_length(points) ==
    IF Len(points) < 2 THEN 0
    ELSE point_distance(points[1], points[2]) + polyline_length(Tail(points))

\* {'points': points, 'start': points[0], 'end': points[-1], 'length': ...}
Segment(points) ==
    [points |-> points, start |-> points[1], end |-> points[Len(points)],
     length |-> polyline_length(points)]

\* The first of the longest elements of l
FirstLongest(l) ==
    CHOOSE i \in 1..Len(l) :
        /\ \A j \in 1..Len(l) : l[j].length <= l[i].length
        /\ \A j \in 1..(i - 1) : l[j].length < l[i].length

RECURSIVE SortLongestFirst(_)
\* segments.sort(key=lambda s: s['length'], reverse=True): stable
SortLongestFirst(l) ==
    IF l = <<>> THEN <<>>
    ELSE <<l[FirstLongest(l)]>> \o SortLongestFirst(Pop(l, FirstLongest(l) - 1))

NearOrAt(dist, thr) == dist <= thr

\* `dist < threshold`
Near(dist, thr) == dist < thr

MatchStartOnly(cur, candidate, thr) ==
    IF Near(point_distance(cur, candidate.start), thr) THEN "forward"
    ELSE "none"

\* How a candidate continues the path that ends at cur: its start is tried
\* first, then its end
Match(cur, candidate, thr) ==
    IF Near(point_distance(cur, candidate.start), thr) THEN "forward"
    ELSE IF Near(point_distance(cur, candidate.end), thr) THEN "reversed"
    ELSE "none"

\* The candidates of `for j, candidate in enumerate(segments)` that are taken
Joinable ==
    {j \in 1..Len(segments) :
        j \notin used /\ Match(Val(join_end), segments[j], threshold) # "none"}

\* `if not segments: return []`
JoinEmpty ==
    /\ join_pc = "start"
    /\ segments = <<>>
    /\ join_pc' = "done"
    /\ UNCHANGED <<segments, threshold, used, joined_paths, current_path, join_end,
                   join_i, join_log>>

\* The sort, in place
JoinSort ==
    /\ join_pc = "start"
    /\ segments # <<>>
    /\ segments' = SortLongestFirst(segments)
    /\ join_pc' = "for"
    /\ UNCHANGED <<threshold, used, joined_paths, current_path, join_end, join_i, join_log>>

\* `for i, seg in enumerate(segments)` is over: `return joined_paths`
JoinReturn ==
    /\ join_pc = "for"
    /\ join_i > Len(segments)
    /\ join_pc' = "done"
    /\ UNCHANGED <<segments, threshold, used, joined_paths, current_path, join_end,
                   join_i, join_log>>

\* `if i in used: continue`
JoinSkip ==
    /\ join_pc = "for"
    /\ join_i <= Len(segments)
    /\ join_i \in used
    /\ join_i' = join_i + 1
    /\ UNCHANGED <<segments, threshold, used, joined_paths, current_path, join_end,
                   join_log, join_pc>>

\* Start new path
JoinStart ==
    /\ join_pc = "for"
    /\ join_i <= Len(segments)
    /\ join_i \notin used
    /\ current_path' = segments[join_i].points
    /\ used' = used \cup {join_i}
    /\ join_end' = Some(segments[join_i].end)
    /\ join_log' = Append(join_log, <<[seg |-> join_i, rev |-> FALSE]>>)
    /\ join_pc' = "while"
    /\ UNCHANGED <<segments, threshold, joined_paths, join_i>>

ExtensionWhole(points, rev) == IF rev THEN Reversed(points) ELSE points

\* `candidate['points'][1:]`, or `reversed_points[1:]`: the duplicate point skipped
Extension(points, rev) == Tail(IF rev THEN Reversed(points) ELSE points)

\* One turn of `while changed` that finds a candidate: the first in the list
JoinExtend ==
    /\ join_pc = "while"
    /\ Joinable # {}
    /\ LET j == CHOOSE k \in Joinable : \A m \in Joinable : k <= m
           candidate == segments[j]
           rev == Match(Val(join_end), candidate, threshold) = "reversed"
       IN  /\ current_path' = current_path \o Extension(candidate.points, rev)
           /\ join_end' = Some(IF rev THEN candidate.start ELSE candidate.end)
           /\ used' = used \cup {j}
           /\ join_log' = [join_log EXCEPT ![Len(join_log)] =
                              Append(@, [seg |-> j, rev |-> rev])]
    /\ UNCHANGED <<segments, threshold, joined_paths, join_i, join_pc>>

\* The turn of `while changed` that finds none: joined_paths.append
JoinClose ==
    /\ join_pc = "while"
    /\ Joinable = {}
    /\ joined_paths' = Append(joined_paths, current_path)
    /\ join_i' = join_i + 1
    /\ join_pc' = "for"
    /\ UNCHANGED <<segments, threshold, used, current_path, join_end, join_log>>

-----------------------------------------------------------------------------
(* The command generator: SVGPathParser.convert_to_drawing_commands.          *)
(* Source coordinates are integers. A command's x and y are kept as integers  *)
(* too, in units of 1/Grain of the drawing area's unit, where Grain is a      *)
(* common denominator of the scale, the centring offset and the curve         *)
(* samples.                                                                   *)

NumSamples == 20
DefaultSvgSize == 100
PenFeedrate == 8000
ZUp == 64

\* drawing_area, from get_drawing_area
Area(x_min, y_min, width, height, z_draw) ==
    [x_min |-> x_min, y_min |-> y_min, x_max |-> x_min + width, y_max |-> y_min + height,
     width |-> width, height |-> height, z_draw |-> z_draw]

\* `self.width or 100`, `self.height or 100`
svg_width == IF svg_size.width = None \/ svg_size.width = Some(0)
             THEN DefaultSvgSize ELSE Val(svg_size.width)
svg_height == IF svg_size.height = None \/ svg_size.height = Some(0)
              THEN DefaultSvgSize ELSE Val(svg_size.height)

Grain == 2 * svg_width * svg_height * NumSamples

\* scale = max(scale_x, scale_y), times svg_width * svg_height
Scale == Max(drawing_area.width * svg_height, drawing_area.height * svg_width)

\* offset_x and offset_y, times Grain
offset_x ==
    Grain * drawing_area.x_min
      + NumSamples * (drawing_area.width * svg_width * svg_height - svg_width * Scale)
offset_y ==
    Grain * drawing_area.y_min
      + NumSamples * (drawing_area.height * svg_width * svg_height - svg_height * Scale)

\* _transform_point of the point p / NumSamples, times Grain
transform_point(p) == <<2 * p[1] * Scale + offset_x, 2 * p[2] * Scale + offset_y>>

\* _is_in_bounds
is_in_bounds(xy) ==
    /\ Grain * drawing_area.x_min <= xy[1] /\ xy[1] <= Grain * drawing_area.x_max
    /\ Grain * drawing_area.y_min <= xy[2] /\ xy[2] <= Grain * drawing_area.y_max

\* z_up_actual = z_draw + z_up
z_up_actual == drawing_area.z_draw + ZUp

MoveCmd(xy) ==
    [type |-> "move", x |-> xy[1], y |-> xy[2], z |-> z_up_actual, feedrate |-> PenFeedrate]
DrawCmd(xy) ==
    [type |-> "draw", x |-> xy[1], y |-> xy[2], z |-> drawing_area.z_draw,
     feedrate |-> PenFeedrate]

\* Path segments of svg.path: a Move, a Line, a Close, or a curve, here the
\* Bezier curve whose control points are evenly spaced from start to end
Seg(kind, start, end) == [kind |-> kind, start |-> start, end |-> end]

\* segment.end, and segment.point(i / num_samples), times NumSamples
EndPoint(seg) == <<NumSamples * seg.end[1], NumSamples * seg.end[2]>>
SamplePoint(seg, i) ==
    <<seg.start[1] * (NumSamples - i) + seg.end[1] * i,
      seg.start[2] * (NumSamples - i) + seg.end[2] * i>>

RECURSIVE CurveCommands(_, _, _, _)
\* `for i in range(num_samples + 1)`, from sample i on
CurveCommands(cmds, first_point, seg, i) ==
    IF i > NumSamples THEN cmds
    ELSE LET xy == transform_point(SamplePoint(seg, i))
         IN  IF first_point /\ i = 0
             THEN CurveCommands(cmds \o <<MoveCmd(xy), DrawCmd(xy)>>, FALSE, seg, i + 1)
             ELSE CurveCommands(Append(cmds, DrawCmd(xy)), first_point, seg, i + 1)

RECURSIVE SegmentCommands(_, _, _)
\* `for segment in path`
SegmentCommands(cmds, first_point, segs) ==
    IF segs = <<>> THEN cmds
    ELSE LET seg == Head(segs)
             xy == transform_point(EndPoint(seg))
         IN  IF seg.kind = "Move"
             THEN SegmentCommands(Append(cmds, MoveCmd(xy)), FALSE, Tail(segs))
             ELSE IF seg.kind \in {"Line", "Close"}
             THEN IF ~is_in_bounds(xy)
                  THEN SegmentCommands(cmds, first_point, Tail(segs))
                  ELSE IF first_point
                  THEN SegmentCommands(cmds \o <<MoveCmd(xy), DrawCmd(xy)>>, FALSE, Tail(segs))
                  ELSE SegmentCommands(Append(cmds, DrawCmd(xy)), FALSE, Tail(segs))
             ELSE SegmentCommands(CurveCommands(cmds, first_point, seg, 0), FALSE,
                                  Tail(segs))

LiftPenAfterDraw(cmds) ==
    IF cmds # <<>> /\ cmds[Len(cmds)].type = "draw"
    THEN Append(cmds, MoveCmd(<<cmds[Len(cmds)].x, cmds[Len(cmds)].y>>))
    ELSE cmds

\* Lift pen at end of path
LiftPen(cmds) ==
    IF cmds # <<>>
    THEN Append(cmds, MoveCmd(<<cmds[Len(cmds)].x, cmds[Len(cmds)].y>>))
    ELSE cmds

SkippedPathsWithCurrent(total, count) == total - count + 1

\* `len(self.paths) - path_count` in the message of the limit
SkippedPaths(total, count) == total - count

\* `if len(commands) >= max_commands`
BudgetSpent(cmds, limit) == Len(cmds) >= limit

\* `if not self.paths: return []`
GenEmpty ==
    /\ gen_pc = "start"
    /\ paths = <<>>
    /\ commands' = <<>>
    /\ gen_pc' = "done"
    /\ UNCHANGED <<document, transform, paths, svg_size, drawing_area, max_commands, path_count, owners,
                   skipped>>

\* `commands = []`, `path_count = 0`
GenBegin ==
    /\ gen_pc = "start"
    /\ paths # <<>>
    /\ commands' = <<>>
    /\ path_count' = 0
    /\ gen_pc' = "loop"
    /\ UNCHANGED <<document, transform, paths, svg_size, drawing_area, max_commands, owners, skipped>>

\* One turn of `for path in self.paths` below the limit
GenPath ==
    /\ gen_pc = "loop"
    /\ path_count < Len(paths)
    /\ ~BudgetSpent(commands, max_commands)
    /\ path_count' = path_count + 1
    /\ commands' = LiftPen(SegmentCommands(commands, TRUE, paths[path_count + 1]))
    /\ owners' = owners \o [i \in 1..(Len(commands') - Len(commands)) |-> path_count + 1]
    /\ UNCHANGED <<document, transform, paths, svg_size, drawing_area, max_commands, skipped, gen_pc>>

\* The turn that finds the limit reached: `break`, `return commands`
GenBreak ==
    /\ gen_pc = "loop"
    /\ path_count < Len(paths)
    /\ BudgetSpent(commands, max_commands)
    /\ skipped' = Some(SkippedPaths(Len(paths), path_count))
    /\ gen_pc' = "done"
    /\ UNCHANGED <<document, transform, paths, svg_size, drawing_area, max_commands, commands, path_count,
                   owners>>

\* The paths are exhausted: `return commands`
GenReturn ==
    /\ gen_pc = "loop"
    /\ path_count = Len(paths)
    /\ gen_pc' = "done"
    /\ UNCHANGED <<document, transform, paths, svg_size, drawing_area, max_commands, commands, path_count,
                   owners, skipped>>

-----------------------------------------------------------------------------
(* The scale and offsets of convert_to_drawing_commands in binary floating    *)
(* point. A number is kept as the integer of its 2^-8 parts and every         *)
(* operation rounds its exact result to the nearest number of Mantissa        *)
(* significant binary digits, ties to even, as the program's doubles do with  *)
(* 53 digits.                                                                 *)

\* 2^8: the parts of one
Unit == 256
\* 2^6: six significant binary digits
Mantissa == 64

RECURSIVE Quantum(_)
\* The spacing of the numbers of magnitude m
Quantum(m) == IF m < Mantissa THEN 1 ELSE 2 * Quantum(m \div 2)

\* n / d (d > 0, n >= 0) rounded to nearest, ties to even
RoundPos(n, d) ==
    LET q == Quantum(n \div d)
        k == n \div (d * q)
        rem == n - k * d * q
    IN  IF 2 * rem < d * q THEN k * q
        ELSE IF 2 * rem > d * q THEN (k + 1) * q
        ELSE IF k % 2 = 0 THEN k * q ELSE (k + 1) * q

Round(n, d) == IF n < 0 THEN 0 - RoundPos(0 - n, d) ELSE RoundPos(n, d)

\* float(i) for a small integer i
Float(i) == i * Unit

FAdd(a, b) == Round(a + b, 1)
FSub(a, b) == Round(a - b, 1)
FMul(a, b) == Round(a * b, Unit)
FDiv(a, b) == Round(a * Unit, b)

ScaleToFit(scale_x, scale_y) == Min(scale_x, scale_y)

\* scale = max(scale_x, scale_y)
ScaleToFill(scale_x, scale_y) == Max(scale_x, scale_y)

\* scale_x, scale_y and scale for source w x h and area a
FitScaleX(w, a) == FDiv(a.width, w)
FitScaleY(h, a) == FDiv(a.height, h)
FitScale(w, h, a) == ScaleToFill(FitScaleX(w, a), FitScaleY(h, a))

\* offset = min + (extent - source * scale) / 2
FitOffset(min, extent, source, scale) ==
    FAdd(min, FDiv(FSub(extent, FMul(source, scale)), Float(2)))

\* _transform_point on one axis: v * scale + offset
FitCoordinate(v, scale, offset) == FAdd(FMul(v, scale), offset)

\* Where the source corners (0, 0) and (w, h) are mapped
FitCorners(w, h, a) ==
    LET scale == FitScale(w, h, a)
        off_x == FitOffset(a.x_min, a.width, w, scale)
        off_y == FitOffset(a.y_min, a.height, h, scale)
    IN  [scale_x |-> FitScaleX(w, a), scale_y |-> FitScaleY(h, a),
         lo_x |-> FitCoordinate(Float(0), scale, off_x),
         lo_y |-> FitCoordinate(Float(0), scale, off_y),
         hi_x |-> FitCoordinate(w, scale, off_x),
         hi_y |-> FitCoordinate(h, scale, off_y)]

\* The scale computation of one call
FitCompute ==
    /\ fit = None
    /\ fit_args # None
    /\ fit' = Some(FitCorners(Val(fit_args).width, Val(fit_args).height, Val(fit_args).area))
    /\ UNCHANGED fit_args

-----------------------------------------------------------------------------
(* Specifications *)

Feedrates == {8000}
XYs == 0..MaxXY
Zs == 0..MaxZ
Targets == {Pose(x, y, z) : x \in XYs, y \in XYs, z \in Zs}

\* The poses the arm is put at by hand
LcPoses == {Pose(0, 0, 0), Pose(MaxXY, MaxXY, 0)}

OptIdle ==
    /\ polylines = <<>> /\ ordered = <<>> /\ remaining = <<>>
    /\ current_end = None /\ opt_pc = "idle"

JoinIdle ==
    /\ segments = <<>> /\ threshold = 0 /\ used = {} /\ joined_paths = <<>>
    /\ current_path = <<>> /\ join_end = None /\ join_i = 1 /\ join_log = <<>>
    /\ join_pc = "idle"

FitIdle == fit_args = None /\ fit = None

SesIdle ==
    /\ drawing_progress = NoProgress /\ progress_lock = None
    /\ requests = [t \in Threads |-> IdleRequest]
    /\ observed = None /\ device_log = <<>>

LinkIdle == serial_log = <<>> /\ link_status = "idle"

GenIdle ==
    /\ document = <<>> /\ transform = <<>>
    /\ paths = <<>> /\ max_commands = 0 /\ commands = <<>> /\ path_count = 0
    /\ svg_size = [width |-> None, height |-> None]
    /\ drawing_area = Area(0, 0, 0, 0, 0)
    /\ owners = <<>> /\ skipped = None
    /\ gen_pc = "idle"

\* The safe motion executor under a drawing session, on a connected and
\* calibrated arm.
ExecConfig ==
    [port |-> Some("COM3"),
     corners |-> [corner1 |-> Some(Pose(0, 0, 0)), corner2 |-> Some(Pose(MaxXY, MaxXY, 0))],
     resting_position |-> None]

ExecInit ==
    /\ is_connected = TRUE
    /\ dexarm = Some("COM3")
    /\ config = ExecConfig
    /\ arm \in Targets
    /\ wire = <<>>
    /\ result = Outcome("init", "ok")
    /\ current_z = None
    /\ drawing = FALSE
    /\ OptIdle /\ JoinIdle /\ GenIdle /\ FitIdle /\ SesIdle /\ LinkIdle

ExecNext ==
    \/ /\ \E pos \in Reads : DrawBegin(pos)
       /\ UNCHANGED <<optVars, joinVars, genVars, fitVars, sesVars, linkVars>>
    \/ /\ \E t \in Targets, f \in Feedrates, pos \in ReadsFor(current_z) :
            \E n \in 0..Len(SafeLines(t.x, t.y, t.z, f, current_z, pos)), r \in 0..1 :
               DrawCommand(t.x, t.y, t.z, f, pos, n, r)
       /\ UNCHANGED <<optVars, joinVars, genVars, fitVars, sesVars, linkVars>>
    \/ /\ \E n \in 0..1, r \in 0..1 : DrawEnd(n, r)
       /\ UNCHANGED <<optVars, joinVars, genVars, fitVars, sesVars, linkVars>>
    \/ /\ \E p \in LcPoses : HandMove(p)
       /\ UNCHANGED <<current_z, drawing>>
       /\ UNCHANGED <<optVars, joinVars, genVars, fitVars, sesVars, linkVars>>

ExecSpec == ExecInit /\ [][ExecNext]_vars

\* The controller's lifecycle: every operation of the controller, from the
\* state after construction, with the arm at one of a few taught poses.

FrameLength == Len(FrameLines(Pose(0, 0, 0), Pose(0, 0, 0)))

Init ==
    /\ is_connected = FALSE
    /\ dexarm = None
    /\ config = EmptyConfig
    /\ arm \in LcPoses
    /\ wire = <<>>
    /\ result = Outcome("init", "ok")
    /\ current_z = None
    /\ drawing = FALSE
    /\ OptIdle /\ JoinIdle /\ GenIdle /\ FitIdle /\ SesIdle /\ LinkIdle

\* What no operation of the controller touches
NoSession == UNCHANGED <<current_z, drawing, optVars, joinVars, genVars, fitVars, sesVars, linkVars>>

\* A write either fails at once or not at all here; ExecSpec has the failures
\* between the two moves of a safe move.
AllOrNothing(lines) == {0, Len(lines)}

Next ==
    \/ /\ \E port \in {None} \cup {Some(p) : p \in Ports}, found \in {None, Some("COM3")},
             linkOk \in BOOLEAN, move_to_rest \in BOOLEAN, n \in 0..3 :
               connect(port, found, linkOk, move_to_rest, n)
       /\ NoSession
    \/ disconnect /\ NoSession
    \/ /\ \E out \in {"ok", "error", "HomingTimeout"}, ack \in BOOLEAN, hp \in LcPoses :
            home(out, ack, hp)
       /\ NoSession
    \/ /\ \E t \in LcPoses, f \in Feedrates, n \in 0..1 : move_to(t.x, t.y, t.z, f, n)
       /\ NoSession
    \/ /\ \E t \in LcPoses, f \in Feedrates, cz \in {None, Some(0)}, pos \in Reads :
            \E n \in AllOrNothing(SafeLines(t.x, t.y, t.z, f, cz, pos)) :
               move_to_safe(t.x, t.y, t.z, f, cz, pos, n)
       /\ NoSession
    \/ /\ \E pos \in Reads : get_position(pos)
       /\ NoSession
    \/ /\ \E n \in 0..1 : lock_motors(n)
       /\ NoSession
    \/ /\ \E n \in 0..1 : unlock_motors(n)
       /\ NoSession
    \/ /\ \E name \in {"corner1", "corner2"}, pos \in Reads : save_corner(name, pos)
       /\ NoSession
    \/ /\ \E pos \in Reads : save_resting_position(pos)
       /\ NoSession
    \/ reset_calibration /\ NoSession
    \/ /\ \E n \in 0..1 : go_to_resting_position(n)
       /\ NoSession
    \/ /\ \E n \in {0, 1, FrameLength} : test_draw_frame(n)
       /\ NoSession
    \/ /\ \E p \in LcPoses : HandMove(p)
       /\ NoSession

Spec == Init /\ [][Next]_vars

-----------------------------------------------------------------------------
(* The safe motion executor: claims C1 to C4, under ExecSpec *)

\* The last operation was a move_to_safe that returned, planned with a known Z
SafeCallOk ==
    /\ result.op = "move_to_safe"
    /\ result.status = "ok"
    /\ result.cz # None

Target == Val(result.target)
PlannedZ == Val(result.cz)
Sent == Moves(wire)

XYChanged(m) == m.x # m.from.x \/ m.y # m.from.y
ZChanged(m) == m.z # m.from.z

\* C1: in a call with |target.z - currentZ| >= 0.5, currentZ being the arm's
\* Z, no emitted move changes XY and Z together, and every move that changes
\* XY is made at Z = max(currentZ, target.z).
C1_NoDiagonalDrag ==
    (/\ SafeCallOk
     /\ Abs(Target.z - PlannedZ) >= HalfMm
     /\ Sent # <<>>
     /\ Sent[1].from.z = PlannedZ)
    => \A i \in DOMAIN Sent :
          /\ ~(XYChanged(Sent[i]) /\ ZChanged(Sent[i]))
          /\ XYChanged(Sent[i]) => Sent[i].z = Max(PlannedZ, Target.z)

\* C2: lifting by 0.5 or more emits exactly two moves: the first to the
\* arm's own X and Y at target.z, the second to the target, both at the fast
\* feedrate.
C2_LiftInPlaceThenTravel ==
    (SafeCallOk /\ Target.z - PlannedZ >= HalfMm)
    => /\ Len(Sent) = 2
       /\ Sent[1].x = Sent[1].from.x
       /\ Sent[1].y = Sent[1].from.y
       /\ Sent[1].z = Target.z
       /\ Sent[1].f = FastFeedrate
       /\ Sent[2].x = Target.x
       /\ Sent[2].y = Target.y
       /\ Sent[2].z = Target.z
       /\ Sent[2].f = FastFeedrate

\* C3: lowering by 0.5 or more emits exactly two moves: the first to the
\* target's X and Y at currentZ at the fast feedrate, the second to the target
\* at the commanded feedrate; the second does not change X or Y.
C3_TravelThenLower ==
    (SafeCallOk /\ PlannedZ - Target.z >= HalfMm)
    => /\ Len(Sent) = 2
       /\ Sent[1].cmd = "G0"
       /\ Sent[1].x = Target.x
       /\ Sent[1].y = Target.y
       /\ Sent[1].z = PlannedZ
       /\ Sent[1].f = FastFeedrate
       /\ Sent[2].cmd = "G0"
       /\ Sent[2].x = Target.x
       /\ Sent[2].y = Target.y
       /\ Sent[2].z = Target.z
       /\ Sent[2].f = Target.f
       /\ ~XYChanged(Sent[2])

C3_Witness ==
    /\ SafeCallOk
    /\ PlannedZ - Target.z = HalfMm
    /\ Len(Sent) = 2
    /\ XYChanged(Sent[1])
    /\ ZChanged(Sent[2])

\* C4: with |target.z - currentZ| < 0.5 exactly one move is emitted, to the
\* target at the commanded feedrate; with a difference of 0.5 or more, 0.5
\* included, two moves are emitted.
C4_DirectBelowHalfMm ==
    SafeCallOk
    => IF Abs(Target.z - PlannedZ) < HalfMm
       THEN /\ Len(Sent) = 1
            /\ Sent[1].cmd = "G0"
            /\ Sent[1].x = Target.x
            /\ Sent[1].y = Target.y
            /\ Sent[1].z = Target.z
            /\ Sent[1].f = Target.f
       ELSE Len(Sent) = 2

C4_Witness ==
    /\ SafeCallOk
    /\ Abs(Target.z - PlannedZ) = HalfMm - 1
    /\ Len(Sent) = 1
    /\ XYChanged(Sent[1])
    /\ ZChanged(Sent[1])

-----------------------------------------------------------------------------
(* The controller's lifecycle: claim C5, under Spec *)

DeviceOps ==
    {"move_to", "move_to_safe", "home", "get_position", "lock_motors",
     "unlock_motors", "save_corner", "save_resting_position",
     "go_to_resting_position", "test_draw_frame"}

\* C5: an operation on the device started while is_connected is false ends
\* with the not-connected error, writes nothing to the device and leaves the
\* connection and the calibration as they were.
C5_DisconnectedRejects ==
    [][(~is_connected /\ result' # result /\ result'.op \in DeviceOps)
        => /\ result'.status = "NotConnected"
           /\ wire' = <<>>
           /\ UNCHANGED <<is_connected, dexarm, config, arm>>]_vars

C5_Witness ==
    /\ ~is_connected
    /\ dexarm # None
    /\ is_calibrated
    /\ result.op = "save_corner"
    /\ result.status = "NotConnected"

-----------------------------------------------------------------------------
(* The path order optimizer on every list of up to MaxStrokes strokes *)

\* Strokes of two distinct points, and two of three points
StrokeSet ==
    {s \in [1..2 -> PointSet] : s[1] # s[2]}
    \cup {<<<<0, 0>>, <<3, 0>>, <<3, 4>>>>, <<<<3, 4>>, <<0, 4>>, <<0, 0>>>>,
          <<<<0, 0>>, <<3, 0>>, <<3, 4>>, <<0, 0>>>>}

StrokeLists == UNION {[1..n -> StrokeSet] : n \in 0..MaxStrokes}

CtlIdle ==
    /\ is_connected = FALSE /\ dexarm = None /\ config = EmptyConfig
    /\ arm = Pose(0, 0, 0) /\ wire = <<>> /\ result = Outcome("init", "ok")
    /\ current_z = None /\ drawing = FALSE

OrderInit ==
    /\ polylines \in StrokeLists
    /\ ordered = <<>>
    /\ remaining = <<>>
    /\ current_end = None
    /\ opt_pc = "start"
    /\ CtlIdle /\ JoinIdle /\ GenIdle /\ FitIdle /\ SesIdle /\ LinkIdle

OrderNext ==
    \/ OptEmpty /\ UNCHANGED <<ctlVars, joinVars, genVars, fitVars, sesVars, linkVars>>
    \/ OptSeed /\ UNCHANGED <<ctlVars, joinVars, genVars, fitVars, sesVars, linkVars>>
    \/ OptStep /\ UNCHANGED <<ctlVars, joinVars, genVars, fitVars, sesVars, linkVars>>
    \/ OptReturn /\ UNCHANGED <<ctlVars, joinVars, genVars, fitVars, sesVars, linkVars>>

OrderSpec == OrderInit /\ [][OrderNext]_vars

-----------------------------------------------------------------------------
(* Claims C6 and C7, under OrderSpec *)

OptDone == opt_pc = "done"

\* out is a rearrangement of inp in which each stroke is kept or reversed
IsOrientedPermutation(out, inp) ==
    /\ Len(out) = Len(inp)
    /\ \E f \in Permutations(1..Len(inp)) :
          \A i \in 1..Len(inp) : out[i] = inp[f[i]] \/ out[i] = Reversed(inp[f[i]])

\* C6: the returned list has the length of the input and holds every input
\* stroke exactly once, as it was or reversed; the input list is as it was.
C6_OrderIsOrientedPermutation ==
    OptDone => IsOrientedPermutation(ordered, polylines)

C6_Witness ==
    /\ OptDone
    /\ Len(polylines) = MaxStrokes
    /\ ordered[2] # polylines[2]
    /\ \E i \in 1..Len(ordered) :
          /\ Len(ordered[i]) = 3
          /\ \A j \in 1..Len(polylines) : ordered[i] # polylines[j]

RECURSIVE Travel(_)
\* The pen-up travel of a list of strokes: from each stroke's end to the
\* start of the next
Travel(l) ==
    IF Len(l) < 2 THEN 0
    ELSE point_distance(l[1][Len(l[1])], l[2][1]) + Travel(Tail(l))

\* C7 as claimed: with two strokes or more, the output's pen-up travel is at
\* most that of the input order.
C7_TravelNotWorse ==
    (OptDone /\ Len(polylines) >= 2) => Travel(ordered) <= Travel(polylines)

Hop(l, i) == point_distance(l[i - 1][Len(l[i - 1])], l[i][1])

\* C7 as amended: each hop of the output is no longer than the distance from
\* the stroke before it to either end of any stroke placed later, and with
\* exactly two strokes the output's travel is at most that of the input order.
C7_HopsAreNearest ==
    OptDone =>
      /\ \A i \in 2..Len(ordered) : \A j \in i..Len(ordered) :
            /\ Hop(ordered, i) <= point_distance(ordered[i - 1][Len(ordered[i - 1])], ordered[j][1])
            /\ Hop(ordered, i) <= point_distance(ordered[i - 1][Len(ordered[i - 1])],
                                                 ordered[j][Len(ordered[j])])
      /\ Len(polylines) = 2 => Travel(ordered) <= Travel(polylines)

C7_Witness ==
    /\ OptDone
    /\ Len(polylines) = 2
    /\ Travel(ordered) < Travel(polylines)
    /\ ordered[2] = Reversed(polylines[2])

-----------------------------------------------------------------------------
(* The segment joiner on every list of up to MaxSegments segments *)

SegmentLists == UNION {[1..n -> {Segment(st) : st \in StrokeSet}] : n \in 0..MaxSegments}

\* Distances between points are 0, 3, 4 and 5
Thresholds == {4, 5}

OptIdleCtl == OptIdle /\ CtlIdle

JoinInit ==
    /\ segments \in SegmentLists
    /\ threshold \in Thresholds
    /\ used = {}
    /\ joined_paths = <<>>
    /\ current_path = <<>>
    /\ join_end = None
    /\ join_i = 1
    /\ join_log = <<>>
    /\ join_pc = "start"
    /\ OptIdleCtl /\ GenIdle /\ FitIdle /\ SesIdle /\ LinkIdle

JoinNext ==
    \/ JoinEmpty /\ UNCHANGED <<ctlVars, optVars, genVars, fitVars, sesVars, linkVars>>
    \/ JoinSort /\ UNCHANGED <<ctlVars, optVars, genVars, fitVars, sesVars, linkVars>>
    \/ JoinReturn /\ UNCHANGED <<ctlVars, optVars, genVars, fitVars, sesVars, linkVars>>
    \/ JoinSkip /\ UNCHANGED <<ctlVars, optVars, genVars, fitVars, sesVars, linkVars>>
    \/ JoinStart /\ UNCHANGED <<ctlVars, optVars, genVars, fitVars, sesVars, linkVars>>
    \/ JoinExtend /\ UNCHANGED <<ctlVars, optVars, genVars, fitVars, sesVars, linkVars>>
    \/ JoinClose /\ UNCHANGED <<ctlVars, optVars, genVars, fitVars, sesVars, linkVars>>

JoinSpec == JoinInit /\ [][JoinNext]_vars

-----------------------------------------------------------------------------
(* Claims C8 and C9, under JoinSpec *)

JoinDone == join_pc = "done"

\* The joined path that holds segment i
PathOf(i) ==
    CHOOSE p \in 1..Len(join_log) : \E k \in 1..Len(join_log[p]) : join_log[p][k].seg = i

\* The least distance between an endpoint of a and an endpoint of b
EndpointGap(a, b) ==
    Min(Min(point_distance(a.start, b.start), point_distance(a.start, b.end)),
        Min(point_distance(a.end, b.start), point_distance(a.end, b.end)))

\* C8 as claimed: two segments with some pair of endpoints closer than the
\* threshold end up in the same joined stroke.
C8_ClosePairsAreJoined ==
    JoinDone =>
      \A i, j \in 1..Len(segments) :
         EndpointGap(segments[i], segments[j]) < threshold => PathOf(i) = PathOf(j)

\* The point a logged segment is entered at, and the one it is left at
EntryPoint(e) == IF e.rev THEN segments[e.seg].end ELSE segments[e.seg].start
ExitPoint(e) == IF e.rev THEN segments[e.seg].start ELSE segments[e.seg].end

\* The joined paths that are closed
ClosedPaths ==
    IF join_pc = "while" THEN 1..(Len(join_log) - 1) ELSE 1..Len(join_log)

InPaths(i, ps) == \E p \in ps : \E k \in 1..Len(join_log[p]) : join_log[p][k].seg = i

\* C8 as amended: a joined stroke is closed only when no segment still unused
\* has its start or end closer than the threshold to the stroke's end point.
C8_ClosedOnlyWhenNoneNear ==
    join_pc \in {"for", "while", "done"} =>
      \A p \in ClosedPaths : \A i \in 1..Len(segments) :
         ~InPaths(i, 1..p) =>
            /\ point_distance(ExitPoint(join_log[p][Len(join_log[p])]), segments[i].start)
                 >= threshold
            /\ point_distance(ExitPoint(join_log[p][Len(join_log[p])]), segments[i].end)
                 >= threshold

C8_Witness ==
    /\ JoinDone
    /\ Len(join_log) = 2
    /\ Len(join_log[1]) = 2
    /\ join_log[1][2].rev
    /\ EndpointGap(segments[join_log[1][1].seg], segments[join_log[2][1].seg]) < threshold

\* C9: a segment is appended only at a distance strictly below the threshold
\* from the growing stroke's end to the endpoint it is entered at; so two
\* segments whose endpoints are all at the threshold or farther are never
\* neighbours in a joined stroke.
C9_JoinedStrictlyBelowThreshold ==
    \A p \in 1..Len(join_log) :
       /\ \A k \in 2..Len(join_log[p]) :
             point_distance(ExitPoint(join_log[p][k - 1]), EntryPoint(join_log[p][k]))
               < threshold
       /\ \A k \in 2..Len(join_log[p]) :
             EndpointGap(segments[join_log[p][k - 1].seg], segments[join_log[p][k].seg])
               < threshold

C9_Witness ==
    /\ JoinDone
    /\ Len(join_log) = 2
    /\ Len(join_log[1]) = 2
    /\ \A k \in 1..2 :
          EndpointGap(segments[join_log[1][k].seg], segments[join_log[2][1].seg]) = threshold

-----------------------------------------------------------------------------
(* The command generator on every list of up to MaxPaths paths, for a source  *)
(* twice as wide as high and for a square and a wide drawing area             *)

\* The path of `M p0 L p1`, as parse_path gives it
Polyline(p0, p1) == <<Seg("Move", p0, p0), Seg("Line", p0, p1)>>

PathSet ==
    {Polyline(<<1, 0>>, <<1, 1>>),
     Polyline(<<0, 0>>, <<1, 1>>),
     Polyline(<<1, 0>>, <<2, 1>>),
     Polyline(<<1, 0>>, <<1, 1>>) \o <<Seg("Close", <<1, 1>>, <<1, 0>>)>>,
     <<Seg("Move", <<1, 1>>, <<1, 1>>)>>,
     <<Seg("Move", <<1, 0>>, <<1, 0>>), Seg("Curve", <<1, 0>>, <<1, 1>>)>>}

PathLists == UNION {[1..n -> PathSet] : n \in 0..MaxPaths}

\* With these areas and the source of GenInit the scale is 2 and every offset
\* a multiple of a half, which floating point computes exactly.
Areas == {Area(0, 0, 2, 2, 0), Area(1, 1, 4, 1, 0)}

JoinIdleCtl == JoinIdle /\ OptIdleCtl

GenInit ==
    /\ document = <<>> /\ transform = None
    /\ paths \in PathLists
    /\ svg_size = [width |-> Some(2), height |-> Some(1)]
    /\ drawing_area \in Areas
    /\ max_commands \in 0..MaxCommands
    /\ commands = <<>>
    /\ path_count = 0
    /\ owners = <<>>
    /\ skipped = None
    /\ gen_pc = "start"
    /\ JoinIdleCtl /\ FitIdle /\ SesIdle /\ LinkIdle

GenNext ==
    \/ GenEmpty /\ UNCHANGED <<ctlVars, optVars, joinVars, fitVars, sesVars, linkVars>>
    \/ GenBegin /\ UNCHANGED <<ctlVars, optVars, joinVars, fitVars, sesVars, linkVars>>
    \/ GenPath /\ UNCHANGED <<ctlVars, optVars, joinVars, fitVars, sesVars, linkVars>>
    \/ GenBreak /\ UNCHANGED <<ctlVars, optVars, joinVars, fitVars, sesVars, linkVars>>
    \/ GenReturn /\ UNCHANGED <<ctlVars, optVars, joinVars, fitVars, sesVars, linkVars>>

GenSpec == GenInit /\ [][GenNext]_vars

-----------------------------------------------------------------------------
(* Claim C10, under GenSpec *)

\* C10: the list convert_to_drawing_commands returns has at most max_commands
\* commands.
C10_WithinBudget == gen_pc = "done" => Len(commands) <= max_commands

-----------------------------------------------------------------------------
(* Claims C11 to C14, under GenSpec *)

GenDone == gen_pc = "done"

\* The paths that have commands in the list
Contributors == {owners[i] : i \in 1..Len(owners)}

\* C11: when the generator stops at the command limit, the count of skipped
\* paths it reports is not negative and is the number of paths less the
\* number of paths that were processed and have their commands in the list.
C11_SkippedIsTotalLessProcessed ==
    /\ skipped # None =>
         /\ GenDone
         /\ Val(skipped) >= 0
         /\ Val(skipped) = Len(paths) - Cardinality(Contributors)
         /\ Contributors = 1..path_count
    /\ (GenDone /\ paths # <<>> /\ path_count < Len(paths)) => skipped # None

C11_Witness ==
    /\ GenDone
    /\ Len(paths) = 2
    /\ skipped = Some(1)
    /\ Contributors = {1}

\* The place in the list of the first command of path k
FirstOf(k) == CHOOSE i \in 1..Len(owners) : owners[i] = k /\ \A j \in 1..(i - 1) : owners[j] # k

\* The place in the list of the last command of path k
LastOf(k) == CHOOSE i \in 1..Len(owners) : owners[i] = k /\ \A j \in (i + 1)..Len(owners) : owners[j] # k

\* The points of a path that fall in the drawing area, transformed
InBoundsPoints(path) ==
    SelectSeq([i \in 1..Len(path) |-> transform_point(EndPoint(path[i]))], is_in_bounds)

\* C12: the commands of every stroke begin with a Move above the stroke's first
\* in-bounds point, followed at once by a Draw at the same (x, y) at z_draw.
C12_PenDownAtStrokeStart ==
    GenDone =>
      \A k \in Contributors :
         Len(InBoundsPoints(paths[k])) >= 2 =>
            /\ commands[FirstOf(k)] = MoveCmd(InBoundsPoints(paths[k])[1])
            /\ LastOf(k) > FirstOf(k)
            /\ commands[FirstOf(k) + 1] = DrawCmd(InBoundsPoints(paths[k])[1])

\* The commands of path k, and what its segments alone give
CommandsOf(k) == SubSeq(commands, FirstOf(k), LastOf(k))
BodyOf(k) == SegmentCommands(<<>>, TRUE, paths[k])

\* C13: the commands of every processed stroke end with exactly one Move at
\* z_up above the (x, y) of the stroke's last emitted command, so no two Draw
\* commands of different strokes are neighbours in the list.
C13_OneTrailingLift ==
    GenDone =>
      /\ \A k \in Contributors :
            /\ BodyOf(k) # <<>>
            /\ CommandsOf(k) =
                 Append(BodyOf(k),
                        [type |-> "move", x |-> BodyOf(k)[Len(BodyOf(k))].x,
                         y |-> BodyOf(k)[Len(BodyOf(k))].y, z |-> z_up_actual,
                         feedrate |-> PenFeedrate])
      /\ \A i \in 1..(Len(commands) - 1) :
            owners[i] # owners[i + 1] =>
               ~(commands[i].type = "draw" /\ commands[i + 1].type = "draw")

C13_Witness ==
    /\ GenDone
    /\ \E i \in 2..(Len(commands) - 2) :
          /\ owners[i] = 1 /\ owners[i + 1] = 2
          /\ commands[i - 1].type = "draw"
          /\ commands[i].type = "move" /\ commands[i + 1].type = "move"
          /\ commands[i + 2].type = "draw"

\* C14: every command of the returned list has its (x, y) inside the drawing
\* area.
C14_CommandsInBounds ==
    GenDone =>
      \A i \in 1..Len(commands) : is_in_bounds(<<commands[i].x, commands[i].y>>)

-----------------------------------------------------------------------------
(* The scale computation on small sources and drawing areas *)

SourceSizes == {2, 3, 7, 13}
AreaSizes == {4, 8, 10}
AreaOrigins == {0, 3, -5}

FitArgs ==
    {[width |-> Float(w), height |-> Float(h),
      area |-> Area(Float(x), Float(y), Float(aw), Float(ah), 0)] :
        w \in SourceSizes, h \in SourceSizes, aw \in AreaSizes, ah \in AreaSizes,
        x \in AreaOrigins, y \in AreaOrigins}

FitInit ==
    /\ fit_args \in {Some(a) : a \in FitArgs}
    /\ fit = None
    /\ JoinIdleCtl /\ GenIdle /\ SesIdle /\ LinkIdle

FitNext == FitCompute /\ UNCHANGED <<ctlVars, optVars, joinVars, genVars, sesVars, linkVars>>

FitSpec == FitInit /\ [][FitNext]_vars

-----------------------------------------------------------------------------
(* Claim C15, under FitSpec *)

FitArea == Val(fit_args).area
ByWidth == Val(fit).scale_x >= Val(fit).scale_y
ByHeight == Val(fit).scale_y >= Val(fit).scale_x

\* C15 as claimed: the source corners map exactly onto the area's minimum and
\* maximum along the dimension that determined scale, and symmetrically
\* outside or on the area's bounds along the other dimension.
C15_CornersExactlyOnBounds ==
    fit # None =>
      /\ ByWidth =>
           /\ Val(fit).lo_x = FitArea.x_min /\ Val(fit).hi_x = FitArea.x_max
           /\ Val(fit).lo_y <= FitArea.y_min /\ Val(fit).hi_y >= FitArea.y_max
           /\ FitArea.y_min - Val(fit).lo_y = Val(fit).hi_y - FitArea.y_max
      /\ ByHeight =>
           /\ Val(fit).lo_y = FitArea.y_min /\ Val(fit).hi_y = FitArea.y_max
           /\ Val(fit).lo_x <= FitArea.x_min /\ Val(fit).hi_x >= FitArea.x_max
           /\ FitArea.x_min - Val(fit).lo_x = Val(fit).hi_x - FitArea.x_max

\* The spacing of the numbers at the largest magnitude among a, b and c
Ulp(a, b, c) == Quantum(Max(Max(Abs(a), Abs(b)), Abs(c)))

\* a and b differ by no more than two spacings
Within(a, b, ulp) == Abs(a - b) <= 2 * ulp

\* The claim along the dimension that determined scale, and along the other,
\* for an area from min to max and corners mapped to lo and hi
OnBounds(lo, hi, min, max) ==
    /\ Within(lo, min, Ulp(lo, hi, max - min))
    /\ Within(hi, max, Ulp(lo, hi, max - min))
AroundBounds(lo, hi, min, max) ==
    /\ lo <= min + 2 * Ulp(lo, hi, max - min)
    /\ hi >= max - 2 * Ulp(lo, hi, max - min)
    /\ Within(min - lo, hi - max, Ulp(lo, hi, max - min))

\* C15 as amended: the same, to within two roundings of the floating point
\* numbers at the magnitude of the mapped coordinates and the area's extent.
C15_CornersOnBoundsWithinRounding ==
    fit # None =>
      LET f == Val(fit)
          a == FitArea
      IN  /\ ByWidth =>
               /\ OnBounds(f.lo_x, f.hi_x, a.x_min, a.x_max)
               /\ AroundBounds(f.lo_y, f.hi_y, a.y_min, a.y_max)
          /\ ByHeight =>
               /\ OnBounds(f.lo_y, f.hi_y, a.y_min, a.y_max)
               /\ AroundBounds(f.lo_x, f.hi_x, a.x_min, a.x_max)

\* A case where a mapped corner is off the bound by a rounding
C15_Witness ==
    /\ fit # None
    /\ ByWidth /\ ~ByHeight
    /\ Val(fit).lo_x # FitArea.x_min
    /\ Val(fit).lo_y < FitArea.y_min

-----------------------------------------------------------------------------
(* The connection and the calibration: claims C16 to C20, under Spec *)

\* The step is a call of connect, with these arguments
ConnectCall == result'.op = "connect"
ConnectPort == Val(result'.arg).port
ConnectToRest == Val(result'.arg).move_to_rest

\* C16: connect(port) while connected to that port succeeds without touching
\* the link, sends nothing when no move to rest is asked for, and leaves the
\* connection, the persisted port, the corners and the resting position as
\* they were.
C16_SamePortIsNoOp ==
    [][(ConnectCall /\ is_connected /\ dexarm # None /\ ConnectPort = config.port) =>
          /\ result'.status = "ok"
          /\ UNCHANGED <<is_connected, dexarm, config>>
          /\ ~ConnectToRest => (wire' = <<>> /\ arm' = arm)]_vars

C16_Witness ==
    /\ result.op = "connect" /\ result.status = "ok"
    /\ Val(result.arg) = [port |-> config.port, move_to_rest |-> FALSE]
    /\ wire = <<>>
    /\ is_connected /\ dexarm = config.port
    /\ is_calibrated /\ config.resting_position # None

\* C17: a connect that is not the no-op drops the prior session, resolves the
\* port, opens the link, sends G90 first, and only then is connected with the
\* port persisted; wherever it stops before, it is not connected and the
\* persisted port is as it was; without a resolvable port no link is opened.
C17_ConnectInOrder ==
    [][(ConnectCall /\ ~AlreadyConnected(ConnectPort)) =>
          /\ result'.status \in {"ok", "ConnectFailed", "NoPortFound"}
          /\ result'.status = "ok" =>
                /\ wire' # <<>> /\ wire'[1].cmd = "G90"
                /\ is_connected' /\ dexarm' # None /\ config'.port = dexarm'
                /\ ConnectPort # None => dexarm' = ConnectPort
                /\ (ConnectPort = None /\ config.port # None) => dexarm' = config.port
                /\ config'.corners = config.corners
                /\ config'.resting_position = config.resting_position
          /\ result'.status = "ConnectFailed" =>
                /\ ~is_connected' /\ config' = config /\ wire' = <<>>
                /\ (is_connected /\ dexarm' # None) =>
                      dexarm' = (IF ConnectPort # None THEN ConnectPort ELSE config.port)
          /\ result'.status = "NoPortFound" =>
                /\ ConnectPort = None /\ config.port = None
                /\ ~is_connected' /\ config' = config /\ wire' = <<>>
                /\ dexarm' = (IF is_connected THEN None ELSE dexarm)]_vars

C17_Witness ==
    /\ result.op = "connect" /\ result.status = "ok"
    /\ Val(result.arg) = [port |-> Some("COM4"), move_to_rest |-> TRUE]
    /\ Len(wire) = 3 /\ wire[1].cmd = "G90"
    /\ is_connected /\ dexarm = Some("COM4") /\ config.port = Some("COM4")

\* C18: home on a connected arm returns normally only when G28 was answered
\* with `ok` before the timeout.
C18_HomeReturnsOnlyAcknowledged ==
    (result.op = "home" /\ result.status = "ok") => result.ack = Some(TRUE)

OtherCorner(name) == IF name = "corner1" THEN "corner2" ELSE "corner1"

\* C19: a successful save_corner(name) stores the live pose under name, keeps
\* the other corner, and leaves the controller calibrated exactly when the
\* other corner is present; a failed one, connect, disconnect and
\* save_resting_position leave the corners alone, and reset_calibration leaves
\* the controller not calibrated.
C19_CalibratedIffBothCorners ==
    [][/\ (result'.op = "save_corner" /\ result'.status = "ok") =>
            /\ config'.corners[Val(result'.arg)] = Some(arm)
            /\ config'.corners[OtherCorner(Val(result'.arg))]
                 = config.corners[OtherCorner(Val(result'.arg))]
            /\ is_calibrated' <=> config.corners[OtherCorner(Val(result'.arg))] # None
       /\ (result'.op = "save_corner" /\ result'.status # "ok") =>
            config'.corners = config.corners
       /\ result'.op \in {"connect", "disconnect", "save_resting_position"} =>
            config'.corners = config.corners
       /\ result'.op = "reset_calibration" => ~is_calibrated']_vars

C19_Witness ==
    /\ result.op = "save_corner" /\ result.status = "ok"
    /\ result.arg = Some("corner2")
    /\ config.corners.corner2 = Some(arm)
    /\ config.corners.corner1 # None /\ config.corners.corner1 # config.corners.corner2
    /\ is_calibrated

\* C20: reset_calibration clears both corners and leaves the resting position,
\* the persisted port and the connection as they were.
C20_ResetClearsOnlyCorners ==
    [][result'.op = "reset_calibration" =>
          /\ config'.corners = NoCorners
          /\ ~is_calibrated'
          /\ config'.resting_position = config.resting_position
          /\ config'.port = config.port
          /\ UNCHANGED <<is_connected, dexarm>>]_vars

C20_Witness ==
    /\ result.op = "reset_calibration"
    /\ config.corners = NoCorners
    /\ config.resting_position # None
    /\ config.port # None
    /\ is_connected

-----------------------------------------------------------------------------
(* Resting position, disconnect and persistence: claims C21 to C24, under Spec *)

\* C21: go_to_resting_position on a connected arm writes one move, to the
\* stored resting position if there is one and else to the default
\* (200, 0, 50); it does so whether or not the arm is calibrated, changes
\* neither the corners nor the resting position, and a resting position once
\* stored is never removed.
C21_RestingMoveToStoredOrDefault ==
    [][/\ (result'.op = "go_to_resting_position" /\ is_connected /\ dexarm # None) =>
            /\ result'.status \in {"ok", "error"}
            /\ result'.status = "ok" =>
                  /\ Len(wire') = 1
                  /\ wire'[1].cmd = "G0"
                  /\ Pose(wire'[1].x, wire'[1].y, wire'[1].z)
                       = (IF config.resting_position # None
                          THEN Val(config.resting_position)
                          ELSE Pose(200 * 2 * HalfMm, 0, 50 * 2 * HalfMm))
                  /\ arm' = Pose(wire'[1].x, wire'[1].y, wire'[1].z)
            /\ result'.status = "error" => wire' = <<>>
            /\ config' = config
            /\ is_calibrated' <=> is_calibrated
       /\ config.resting_position # None => config'.resting_position # None]_vars

C21_Witness ==
    /\ result.op = "go_to_resting_position" /\ result.status = "ok"
    /\ config.resting_position # None
    /\ ~is_calibrated
    /\ Len(wire) = 1
    /\ Pose(wire[1].x, wire[1].y, wire[1].z) = Val(config.resting_position)
    /\ wire[1].from # Val(config.resting_position)

\* C22: the controller starts disconnected, holding no link; disconnect, from
\* any state, closes the link if one is held and leaves the controller
\* disconnected, with the configuration and the arm as they were; on a
\* controller already disconnected it changes nothing.
C22_DisconnectAlwaysDisconnects ==
    /\ ~is_connected /\ dexarm = None
    /\ [][result'.op = "disconnect" =>
            /\ result'.status = "ok"
            /\ ~is_connected' /\ dexarm' = None
            /\ wire' = <<>>
            /\ UNCHANGED <<config, arm>>
            /\ (~is_connected /\ dexarm = None) => UNCHANGED <<is_connected, dexarm>>]_vars

\* A calibrated controller that was connected has been disconnected
C22_Witness ==
    /\ result.op = "disconnect" /\ result.status = "ok"
    /\ ~is_connected /\ dexarm = None
    /\ config.port # None
    /\ is_calibrated

\* C23: the corners and the resting position change only in save_corner,
\* reset_calibration and save_resting_position; connect, disconnect, home,
\* the moves, lock and unlock, the position reads and the drawing sessions
\* leave them as they are, so that the calibration is still there after a
\* disconnect and the next connect.
C23_CalibrationChangesOnlyWhenSaved ==
    [][result'.op \notin {"save_corner", "reset_calibration", "save_resting_position"} =>
          /\ config'.corners = config.corners
          /\ config'.resting_position = config.resting_position
          /\ is_calibrated' <=> is_calibrated]_vars

\* A connect that opened a new link finds the calibration of before
C23_Witness ==
    /\ result.op = "connect" /\ result.status = "ok"
    /\ wire # <<>> /\ wire[1].cmd = "G90"
    /\ Val(result.arg).port = Some("COM4") /\ config.port = Some("COM4")
    /\ is_calibrated /\ config.resting_position # None
    /\ config.corners.corner1 # config.corners.corner2

\* C24: whenever the controller is calibrated, the area of get_drawing_area
\* has x_max > x_min and y_max > y_min, whatever two poses save_corner stored.
C24_AreaStrictlyPositive ==
    is_calibrated =>
        /\ get_drawing_area # None
        /\ Val(get_drawing_area).x_max > Val(get_drawing_area).x_min
        /\ Val(get_drawing_area).y_max > Val(get_drawing_area).y_min

-----------------------------------------------------------------------------
(* Position reads: claim C30, under Spec *)

\* C30: get_position on a connected arm whose read fails or gives no X/Y/Z
\* line returns None as a normal result; the controller stays connected with
\* its link; and no operation that reads the position disconnects: only
\* disconnect and connect ever end a connection.
C30_FailedReadStaysConnected ==
    [][/\ (result'.op = "get_position" /\ is_connected /\ dexarm # None) =>
            /\ result'.status = "ok"
            /\ result'.ret \in {None, Some(arm)}
            /\ UNCHANGED <<is_connected, dexarm, config, arm>>
       /\ (is_connected /\ (~is_connected' \/ dexarm' # dexarm)) =>
            result'.op \in {"disconnect", "connect"}]_vars

C30_Witness ==
    /\ result.op = "get_position" /\ result.status = "ok"
    /\ result.ret = None
    /\ is_connected /\ dexarm # None
    /\ wire # <<>> /\ wire[1].cmd = "M114"

-----------------------------------------------------------------------------
(* Drawing sessions: two request threads of draw_svg, the progress stream,  *)
(* test_draw_frame and disconnect, on a controller that was connected and   *)
(* calibrated or not. Claims C25 to C29, under DrawSpec.                    *)

\* Lists that convert_to_drawing_commands returns: no command, or a stroke
SessionCommands ==
    {<<>>,
     <<Cmd("move", 0, 0, HalfMm, PenFeedrate), Cmd("draw", MaxXY, MaxXY, 0, PenFeedrate)>>}

DrawInit ==
    /\ is_connected \in BOOLEAN
    /\ dexarm = IF is_connected THEN Some("COM3") ELSE None
    /\ config \in {ExecConfig, [ExecConfig EXCEPT !.corners = NoCorners]}
    /\ arm = Pose(0, 0, 0)
    /\ wire = <<>>
    /\ result = Outcome("init", "ok")
    /\ current_z = None
    /\ drawing = FALSE
    /\ OptIdle /\ JoinIdle /\ GenIdle /\ FitIdle /\ SesIdle /\ LinkIdle

\* What neither a request nor the stream touches
NoExec == UNCHANGED <<current_z, drawing, optVars, joinVars, genVars, fitVars, linkVars>>

DrawNext ==
    \/ /\ \E t \in Threads, cmds \in SessionCommands : draw_svg_begin(t, cmds)
       /\ NoExec
    \/ /\ \E t \in Threads, pos \in Reads : draw_svg_read(t, pos)
       /\ NoExec
    \/ /\ \E t \in Threads : \E pos \in ReadsFor(requests[t].current_z), n \in 0..3, r \in 0..1 :
            draw_svg_command(t, pos, n, r)
       /\ NoExec
    \/ /\ \E t \in Threads, n \in 0..1, r \in 0..1 : draw_svg_rest(t, n, r)
       /\ NoExec
    \/ /\ \E t \in Threads : draw_svg_return(t)
       /\ NoExec
    \/ drawing_progress_stream /\ NoExec
    \/ stream_resume /\ NoExec
    \/ /\ \E n \in {3, FrameLength} : test_draw_frame(n)
       /\ UNCHANGED sesVars
       /\ NoExec
    \/ disconnect /\ UNCHANGED sesVars /\ NoExec

DrawSpec == DrawInit /\ [][DrawNext]_vars


\* The step starts a draw_svg, in thread Val(result'.arg)
DrawStart ==
    /\ result' # result
    /\ result'.op = "draw_svg"
    /\ requests[Val(result'.arg)].pc = "idle"

\* The step is a call of test_draw_frame
FrameStart == result' # result /\ result'.op = "test_draw_frame"

\* C25: a drawing session, of draw_svg or of test_draw_frame, that fails on a
\* command with the arm connected has tried a move to the resting position
\* before it returns the error; when that move was written it is the last
\* line sent and the arm is at rest, when it failed the error is still the
\* one of the command.
C25_FailedSessionTriesRest ==
    (result.op \in {"draw_svg", "test_draw_frame"} /\ result.status = "error") =>
        /\ result.rest # None
        /\ Val(result.rest) = Len(GoToRestingLines) =>
              /\ wire # <<>>
              /\ Pose(wire[Len(wire)].x, wire[Len(wire)].y, wire[Len(wire)].z) = RestingTarget
              /\ arm = RestingTarget


\* The threads whose draw_svg is between its first and its last device call
Executing == {t \in Threads : requests[t].pc \in {"read", "loop", "hold"}}

\* C26: at most one drawing session issues commands at a time: the moves of
\* two requests running concurrently are never interleaved, that is, a
\* session does not move the arm, see the other move it, and move it again.
C26_SessionsNotInterleaved ==
    /\ Cardinality(Executing) <= 1
    /\ \A i, j, k \in 1..Len(device_log) :
          (i < j /\ j < k /\ device_log[i] = device_log[k]) => device_log[j] = device_log[i]

\* C27: in every state that an observer can read, that is, with the lock
\* free, 0 <= current <= total, and while a session is in its loop, current is
\* the number of commands that session has finished, whatever the
\* interleaving of the sessions and the stream.
C27_ProgressWithinTotal ==
    progress_lock = None =>
        /\ drawing_progress.current \in 0..drawing_progress.total
        /\ \A t \in Executing : requests[t].pc = "loop" =>
              drawing_progress.current = requests[t].i


\* C28: a drawing request whose source gives no command, or whose commands
\* were cut by the budget, is not answered with an error: once the commands
\* are generated the request goes on to draw them, few or none.
C28_EmptyListIsNotAnError ==
    (result.op = "draw_svg" /\ result.ret # None) => result.status \in {"running", "ok"}

\* The step sent nothing and left the arm, the progress and the requests alone
Quiet ==
    /\ wire' = <<>>
    /\ UNCHANGED <<arm, drawing_progress, requests, device_log, is_connected, dexarm, config>>

-----------------------------------------------------------------------------
(* The serial protocol of Dexarm: claim C31, under LinkSpec *)

\* The commands of move_to, fast_move_to, set_absolute_positioning,
\* set_relative_positioning and go_home; the coordinates play no part here
LinkCommands == {"G0", "G1", "G90", "G91", "G28"}

\* How a send_gcode can go: `ok` is read before the timeout, no `ok` comes
\* before the timeout, the write times out, the write fails otherwise
Replies == {"ok", "silence", "SerialTimeoutException", "Exception"}

\* send_gcode(command, wait_ok=True) on an open port
send_gcode(command, reply) ==
    /\ Len(serial_log) < MaxLines
    /\ IF reply = "SerialTimeoutException"
       THEN link_status' = "TimeoutError" /\ UNCHANGED serial_log
       ELSE IF reply = "Exception"
       THEN link_status' = "RuntimeError" /\ UNCHANGED serial_log
       ELSE /\ serial_log' = Append(serial_log, [cmd |-> command, acked |-> reply = "ok"])
            /\ link_status' = AfterWait(reply = "ok")

LinkInit ==
    /\ is_connected = FALSE /\ dexarm = None /\ config = EmptyConfig
    /\ arm = Pose(0, 0, 0) /\ wire = <<>> /\ result = Outcome("init", "ok")
    /\ current_z = None /\ drawing = FALSE
    /\ OptIdle /\ JoinIdle /\ GenIdle /\ FitIdle /\ SesIdle /\ LinkIdle

LinkNext ==
    /\ \E command \in LinkCommands, reply \in Replies : send_gcode(command, reply)
    /\ UNCHANGED <<ctlVars, optVars, joinVars, genVars, fitVars, sesVars>>

LinkSpec == LinkInit /\ [][LinkNext]_vars

\* C31: a motion or mode command is written only after the command before it
\* was answered with `ok`: every line but the last one written has been
\* acknowledged.
C31_NextOnlyAfterOk ==
    \A i \in 1..(Len(serial_log) - 1) : serial_log[i].acked

-----------------------------------------------------------------------------
(* The reference greedy ordering: claim C32, under OrderSpec *)

\* The ways to go on from point cur: a stroke of rem by its index, in its
\* own orientation or reversed
Choices(rem) == {[idx |-> i, rev |-> r] : i \in 1..Len(rem), r \in BOOLEAN}

\* The distance from cur to where choice c starts
Reach(c, rem, cur) ==
    point_distance(cur, IF c.rev THEN rem[c.idx][Len(rem[c.idx])] ELSE rem[c.idx][1])

\* c is taken rather than d at the same distance: the earlier stroke, and of
\* one stroke the forward orientation
Preferred(c, d) == c.idx < d.idx \/ (c.idx = d.idx /\ ~c.rev /\ d.rev)

Nearest(rem, cur) ==
    CHOOSE c \in Choices(rem) :
        \A d \in Choices(rem) \ {c} :
            \/ Reach(c, rem, cur) < Reach(d, rem, cur)
            \/ Reach(c, rem, cur) = Reach(d, rem, cur) /\ Preferred(c, d)

RECURSIVE GreedyFrom(_, _)
GreedyFrom(rem, cur) ==
    IF rem = <<>> THEN <<>>
    ELSE LET c == Nearest(rem, cur)
             s == IF c.rev THEN Reversed(rem[c.idx]) ELSE rem[c.idx]
         IN  <<s>> \o GreedyFrom(SubSeq(rem, 1, c.idx - 1) \o SubSeq(rem, c.idx + 1, Len(rem)),
                                 s[Len(s)])

Greedy(l) ==
    IF l = <<>> THEN <<>>
    ELSE <<l[1]>> \o GreedyFrom(Tail(l), l[1][Len(l[1])])

\* C32: what _optimize_path_order returns is the reference greedy order of
\* its input: the first stroke as it is, then at each step the remaining
\* stroke and orientation nearest to the current end, the earlier stroke and
\* then the forward orientation winning a tie.
C32_OrderIsReferenceGreedy == OptDone => ordered = Greedy(polylines)

\* Both ties were met: two strokes at the same distance, and a closed stroke,
\* equally near forward and reversed
C32_Witness ==
    /\ OptDone
    /\ Len(polylines) = 3
    /\ polylines[2] # polylines[3]
    /\ polylines[2][1] = polylines[3][1]
    /\ polylines[3][1] = polylines[3][Len(polylines[3])]
    /\ polylines[3] # Reversed(polylines[3])
    /\ ordered = polylines

-----------------------------------------------------------------------------
(* The choice of the joiner: claims C33 and C40, under JoinSpec *)

\* The step appends a segment to the growing stroke; the step starts a stroke
ExtendStep == join_pc = "while" /\ used' # used
StartStep == join_pc = "for" /\ used' # used

\* The segment the step has taken, with its orientation
Taken == join_log'[Len(join_log')][Len(join_log'[Len(join_log')])]

\* Each new stroke starts from the longest segment not yet used
C33_StartsFromLongestUnused ==
    [][StartStep =>
          \A i \in 1..Len(segments) :
             i \notin used => segments[i].length <= segments[Taken.seg].length]_vars

\* C33: at every extension the segment appended is, of all unused segments
\* with an endpoint within the threshold of the stroke's end, the one whose
\* matching endpoint is nearest to that end.
C33_ExtendsByNearest ==
    [][ExtendStep =>
          \A i \in 1..Len(segments) : i \notin used =>
             /\ point_distance(Val(join_end), segments[i].start) < threshold =>
                   point_distance(Val(join_end), EntryPoint(Taken))
                     <= point_distance(Val(join_end), segments[i].start)
             /\ point_distance(Val(join_end), segments[i].end) < threshold =>
                   point_distance(Val(join_end), EntryPoint(Taken))
                     <= point_distance(Val(join_end), segments[i].end)]_vars


JoinFairSpec == JoinSpec /\ WF_vars(JoinNext)

RECURSIVE PointCount(_)
\* The points of the segments of a logged stroke, counted with repetition
PointCount(entries) ==
    IF entries = <<>> THEN 0
    ELSE Len(segments[entries[1].seg].points) + PointCount(Tail(entries))

\* The logged strokes that hold segment i, each as often as it holds it
Uses(i) ==
    {<<p, k>> \in (1..Len(join_log)) \X (1..MaxSegments) :
        k <= Len(join_log[p]) /\ join_log[p][k].seg = i}

\* C40: _join_nearby_segments returns for every input, and then every input
\* segment is in exactly one output stroke, once, forward or reversed, and an
\* output stroke built from k segments has the sum of their point counts
\* less k - 1 points.
C40_JoinPartitionsInput ==
    /\ <>JoinDone
    /\ [](JoinDone =>
            /\ Len(joined_paths) = Len(join_log)
            /\ \A i \in 1..Len(segments) : Cardinality(Uses(i)) = 1
            /\ \A p \in 1..Len(join_log) :
                  /\ join_log[p] # <<>>
                  /\ Len(joined_paths[p]) = PointCount(join_log[p]) - (Len(join_log[p]) - 1))

C40_Witness ==
    /\ JoinDone
    /\ Len(segments) = 3
    /\ Len(joined_paths) = 2
    /\ Len(join_log[1]) = 2 /\ join_log[1][2].rev
    /\ Len(joined_paths[1]) = 5


-----------------------------------------------------------------------------
(* parse_svg_file before the command generator: claim C34, under ParseSpec    *)

\* The path of a polyline element of three points, `M p0 L p1 L p2`
Polyline3(p0, p1, p2) == <<Seg("Move", p0, p0), Seg("Line", p0, p1), Seg("Line", p1, p2)>>

RECURSIVE PathLength(_)
\* `p.length()` of a path of Move and Line segments
PathLength(path) ==
    IF path = <<>> THEN 0
    ELSE (IF path[1].kind = "Move" THEN 0 ELSE point_distance(path[1].start, path[1].end))
         + PathLength(Tail(path))

\* Path a of the document comes before path b after
\* `self.paths.sort(key=lambda p: p.length(), reverse=True)`, a stable sort
SortsBefore(doc, a, b) ==
    \/ PathLength(doc[a]) > PathLength(doc[b])
    \/ PathLength(doc[a]) = PathLength(doc[b]) /\ a < b

\* Per place of the sorted list, the place its path had in the document
SortOrder(doc) ==
    [k \in 1..Len(doc) |->
        CHOOSE a \in 1..Len(doc) :
            Cardinality({b \in 1..Len(doc) : SortsBefore(doc, b, a)}) = k - 1]

\* `svg_is_portrait = svg_height > svg_width`, and the same of the area
IsPortrait(width, height) == height > width

\* `svg_is_portrait != area_is_portrait`
OrientationsDiffer ==
    IsPortrait(Val(svg_size.width), Val(svg_size.height))
        # IsPortrait(drawing_area.width, drawing_area.height)

\* `rotate(90 {svg_width/2} {svg_height/2})`, the centre kept doubled
RotateAttribute(width, height) == [angle |-> 90, cx2 |-> width, cy2 |-> height]

\* draw_svg before it parses: the elements get the transform attribute when
\* the orientations differ, and the file is saved as it is otherwise
draw_svg_rotate ==
    /\ gen_pc = "open"
    /\ transform' = IF OrientationsDiffer
                    THEN Some(RotateAttribute(Val(svg_size.width), Val(svg_size.height)))
                    ELSE transform
    /\ gen_pc' = "parse"
    /\ UNCHANGED <<document, paths, svg_size, drawing_area, max_commands, commands,
                   path_count, owners, skipped>>

\* parse_svg_file: the paths of the document, longest first; it reads the
\* points of an element and no transform attribute
parse_svg_file ==
    /\ gen_pc = "parse"
    /\ paths' = [k \in 1..Len(document) |-> document[SortOrder(document)[k]]]
    /\ gen_pc' = "start"
    /\ UNCHANGED <<document, transform, svg_size, drawing_area, max_commands, commands,
                   path_count, owners, skipped>>

\* What the SVG creator wrote, one polyline per stroke of the optimizer's
\* output, in that order
DocumentSet ==
    {Polyline(<<1, 0>>, <<1, 1>>),
     Polyline(<<1, 1>>, <<1, 0>>),
     Polyline3(<<1, 0>>, <<1, 1>>, <<1, 0>>)}

Documents == UNION {[1..n -> DocumentSet] : n \in 0..MaxPaths}

\* The areas of GenInit and an upright one, for which the scale is 2 as well
ParseAreas == Areas \cup {Area(0, 0, 1, 2, 0)}

ParseInit ==
    /\ document \in Documents
    /\ transform = None
    /\ paths = <<>>
    /\ svg_size = [width |-> Some(2), height |-> Some(1)]
    /\ drawing_area \in ParseAreas
    /\ max_commands \in 0..MaxCommands
    /\ commands = <<>>
    /\ path_count = 0
    /\ owners = <<>>
    /\ skipped = None
    /\ gen_pc = "open"
    /\ JoinIdleCtl /\ FitIdle /\ SesIdle /\ LinkIdle

ParseNext ==
    \/ draw_svg_rotate /\ UNCHANGED <<ctlVars, optVars, joinVars, fitVars, sesVars, linkVars>>
    \/ parse_svg_file /\ UNCHANGED <<ctlVars, optVars, joinVars, fitVars, sesVars, linkVars>>
    \/ GenEmpty /\ UNCHANGED <<ctlVars, optVars, joinVars, fitVars, sesVars, linkVars>>
    \/ GenBegin /\ UNCHANGED <<ctlVars, optVars, joinVars, fitVars, sesVars, linkVars>>
    \/ GenPath /\ UNCHANGED <<ctlVars, optVars, joinVars, fitVars, sesVars, linkVars>>
    \/ GenBreak /\ UNCHANGED <<ctlVars, optVars, joinVars, fitVars, sesVars, linkVars>>
    \/ GenReturn /\ UNCHANGED <<ctlVars, optVars, joinVars, fitVars, sesVars, linkVars>>

ParseSpec == ParseInit /\ [][ParseNext]_vars

\* The place in the document of the stroke command i was generated for
StrokeOf(i) == SortOrder(document)[owners[i]]

\* C34: the commands of a stroke that comes earlier in the optimizer's output
\* all precede the commands of a stroke that comes later.
C34_CommandsInOptimizerOrder ==
    \A i, j \in 1..Len(owners) : i < j => StrokeOf(i) <= StrokeOf(j)

\* The generator itself keeps the order of self.paths
C34_CommandsInParsedOrder ==
    \A i, j \in 1..Len(owners) : i < j => owners[i] <= owners[j]


-----------------------------------------------------------------------------
(* The rotation of draw_svg: claim C35, under ParseSpec *)

\* Twice the point p turned 90 degrees clockwise about the centre of a source
\* of the given size, as `rotate(90 cx cy)` would place it
RotatedTwice(p, width, height) == <<width - 2 * p[2] + height, height + 2 * p[1] - width>>

\* The scale over svg_width * svg_height with the two source sizes exchanged
SwappedScale == Max(drawing_area.width * svg_width, drawing_area.height * svg_height)

Parsed == gen_pc \in {"start", "loop", "done"}

\* The points the generator reads are those of the document, unturned
Unturned ==
    \A k \in 1..Len(paths) : paths[k] = document[SortOrder(document)[k]]

\* The points the generator reads are those of the document, turned
Turned ==
    \A k \in 1..Len(paths) : \A n \in 1..Len(paths[k]) :
        <<2 * paths[k][n].end[1], 2 * paths[k][n].end[2]>>
            = RotatedTwice(document[SortOrder(document)[k]][n].end,
                           Val(svg_size.width), Val(svg_size.height))

\* C35: when the orientation of the source differs from that of the drawing
\* area, every point the generator reads is the document's point turned 90
\* degrees clockwise about the centre and the scale is computed with width and
\* height exchanged; when they agree nothing is turned or exchanged.
C35_RotatedIffOrientationsDiffer ==
    Parsed /\ paths # <<>> =>
        IF OrientationsDiffer
        THEN Turned /\ Len(paths) = Len(document) /\ Scale = SwappedScale
        ELSE Unturned /\ transform = None

\* When the orientations agree, a square area included, nothing is turned
C35_NothingTurnedWhenOrientationsAgree ==
    Parsed /\ ~OrientationsDiffer => Unturned /\ transform = None


-----------------------------------------------------------------------------
(* The link the controller holds: claim C36, under Spec *)

\* C36: in every reachable state of the controller is_connected is true
\* exactly when a device link object is held, so that a failed connect leaves
\* the controller disconnected with no link.
C36_ConnectedIffLinkHeld == is_connected <=> dexarm # None

\* The half that holds: a connected controller always holds a link
C36_ConnectedHoldsLink == is_connected => dexarm # None


-----------------------------------------------------------------------------
(* The Z that move_to_safe returns: claim C37, under ExecSpec *)

SafeCallReturned == result.op = "move_to_safe" /\ result.status = "ok"

\* C37: a call without a current Z whose position read fails sends one move,
\* straight to the target on all three axes, and returns target.z; every call
\* that succeeds returns target.z, in every branch, and that is the Z of the
\* last move sent, so the Z the session threads is the Z of the last command
\* executed.
C37_ReturnsTargetZ ==
    SafeCallReturned =>
        /\ result.ret = Some(Target.z)
        /\ current_z = Some(Target.z)
        /\ Sent # <<>>
        /\ Sent[Len(Sent)].z = Target.z
        /\ result.cz = None =>
              /\ Len(Sent) = 1
              /\ Sent[1].x = Target.x /\ Sent[1].y = Target.y /\ Sent[1].z = Target.z
              /\ Sent[1].f = Target.f

C37_Witness ==
    /\ SafeCallReturned
    /\ result.cz = None
    /\ Len(Sent) = 1
    /\ Sent[1].from.z # Target.z /\ Sent[1].from.x # Target.x
    /\ current_z = Some(Target.z)

\* The branches that plan with a Z are reached as well
C37_BranchesReached ==
    /\ SafeCallReturned
    /\ result.cz # None
    /\ Len(Sent) = 2
    /\ PlannedZ > Target.z
    /\ current_z = Some(Target.z)


-----------------------------------------------------------------------------
(* Saves that cannot read the position: claim C38, under Spec *)

SaveFailed ==
    /\ result'.op \in {"save_corner", "save_resting_position"}
    /\ result'.status # "ok"

\* C38: a save_corner or save_resting_position that cannot read the position
\* fails and leaves the corners, the resting position and the persisted record
\* as they were: no corner is created and the calibrated status is unchanged.
C38_FailedSaveChangesNothing ==
    [][SaveFailed => /\ config' = config
                     /\ is_calibrated' = is_calibrated]_vars

C38_Witness ==
    /\ result.op = "save_corner"
    /\ result.status = "error"
    /\ result.arg = Some("corner2")
    /\ is_connected
    /\ config.corners.corner1 # None
    /\ config.corners.corner2 = None
    /\ config.resting_position # None


-----------------------------------------------------------------------------
(* The progress counter at the return of draw_svg: claim C39, under DrawSpec *)

\* Request t, which had marked the counter active, returns in this step
Returns(t) == requests[t].pc # "idle" /\ requests'[t].pc = "idle"

\* C39: when a draw_svg that has marked the progress counter active returns,
\* with success or with an error raised at any point after the activation,
\* the counter is {current: 0, total: 0, active: false, message: ''}.
C39_ProgressClearedOnReturn ==
    [][\A t \in Threads : Returns(t) => drawing_progress' = NoProgress]_vars

\* What every return does clear: the counts and the active mark
C39_CountsClearedOnReturn ==
    [][\A t \in Threads : Returns(t) =>
          /\ ~drawing_progress'.active
          /\ drawing_progress'.current = 0
          /\ drawing_progress'.total = 0]_vars

=============================================================================
